---------------------------- MODULE Spec2Model ----------------------------
(***************************************************************************)
(* PolyDelta: team identity resolution, de-vig pricing and the pairing of  *)
(* bookmaker events with prediction-market events (src/scraper/scraper.py).*)
(*                                                                         *)
(* Names are TLA+ strings; a character is a string of length 1.  Prices    *)
(* and probabilities are exact rationals <<numerator, denominator>>.       *)
(***************************************************************************)
EXTENDS Integers, Sequences, FiniteSets, TLC

\* None where a name is expected
None == "None"

\* None where a number (price, odds, liquidity, index, url) is expected
NoneNum == -1

(***************************************************************************)
(* Python str primitives used by the resolver.                             *)
(***************************************************************************)
UpperChars == <<"A","B","C","D","E","F","G","H","I","J","K","L","M",
                "N","O","P","Q","R","S","T","U","V","W","X","Y","Z">>

LowerChars == <<"a","b","c","d","e","f","g","h","i","j","k","l","m",
                "n","o","p","q","r","s","t","u","v","w","x","y","z">>

Digits == {"0","1","2","3","4","5","6","7","8","9"}

Whitespace == {" ", "\t", "\n"}

CharAt(s, i) == SubSeq(s, i, i)

IsUpper(c) == \E k \in 1..26 : UpperChars[k] = c

\* str.lower() on one character
LowerChar(c) ==
  IF IsUpper(c) THEN LowerChars[CHOOSE k \in 1..26 : UpperChars[k] = c] ELSE c

RECURSIVE LowerFrom(_, _)
LowerFrom(s, i) ==
  IF i > Len(s) THEN "" ELSE LowerChar(CharAt(s, i)) \o LowerFrom(s, i + 1)

\* str.lower()
lower(s) == LowerFrom(s, 1)

RECURSIVE SkipSpaces(_, _)
\* first index >= i of s that is not whitespace (Len(s)+1 when there is none)
SkipSpaces(s, i) ==
  IF i <= Len(s) /\ CharAt(s, i) \in Whitespace THEN SkipSpaces(s, i + 1) ELSE i

RECURSIVE SkipSpacesBack(_, _)
\* last index <= i of s that is not whitespace (0 when there is none)
SkipSpacesBack(s, i) ==
  IF i >= 1 /\ CharAt(s, i) \in Whitespace THEN SkipSpacesBack(s, i - 1) ELSE i

\* str.strip()
strip(s) == SubSeq(s, SkipSpaces(s, 1), SkipSpacesBack(s, Len(s)))

\* Python: sub in s
Contains(sub, s) ==
  \E i \in 1..(Len(s) - Len(sub) + 1) : SubSeq(s, i, i + Len(sub) - 1) = sub

\* s.endswith(suffix)
EndsWith(s, suffix) ==
  /\ Len(s) >= Len(suffix)
  /\ SubSeq(s, Len(s) - Len(suffix) + 1, Len(s)) = suffix

Max2(a, b) == IF a >= b THEN a ELSE b

(***************************************************************************)
(* thefuzz fuzz.ratio: round(100 * 2*LCS(a,b) / (len(a)+len(b))), the      *)
(* normalized InDel similarity, rounded half-to-even to an int.            *)
(***************************************************************************)
RECURSIVE LcsRow(_, _, _, _, _)
\* one row of the LCS table: prev is the row of a[1..i-1], c = a[i];
\* acc holds the new row's entries for b[1..j-1]
LcsRow(prev, c, b, j, acc) ==
  IF j > Len(b) THEN acc
  ELSE LET left == IF j = 1 THEN 0 ELSE acc[j - 1]
           diag == IF j = 1 THEN 0 ELSE prev[j - 1]
           cell == IF CharAt(b, j) = c THEN diag + 1 ELSE Max2(prev[j], left)
       IN  LcsRow(prev, c, b, j + 1, Append(acc, cell))

RECURSIVE LcsFrom(_, _, _, _)
\* the rows of the LCS table from row i on; prev is row i-1.  Every row has
\* Len(b) entries: reading its length makes TLC build a row before the next
LcsFrom(a, b, i, prev) ==
  IF i > Len(a) \/ Len(prev) # Len(b) THEN prev
  ELSE LcsFrom(a, b, i + 1, LcsRow(prev, CharAt(a, i), b, 1, <<>>))

\* length of the longest common subsequence of a and b
Lcs(a, b) ==
  IF Len(a) = 0 \/ Len(b) = 0 THEN 0
  ELSE LcsFrom(a, b, 1, [j \in 1..Len(b) |-> 0])[Len(b)]

\* round(n/d) to the nearest integer, ties to the even one (Python round)
RoundHalfEven(n, d) ==
  LET fl == n \div d
      r2 == 2 * (n % d)
  IN  IF r2 < d THEN fl
      ELSE IF r2 > d THEN fl + 1
      ELSE IF fl % 2 = 0 THEN fl ELSE fl + 1

\* fuzz.ratio(a, b)
ratio(a, b) ==
  IF Len(a) + Len(b) = 0 THEN 100
  ELSE RoundHalfEven(200 * Lcs(a, b), Len(a) + Len(b))

(***************************************************************************)
(* The static tables, entry by entry in the order of the source.  An alias *)
(* table is a sequence of <<team, aliases>>; SOCCER_TEAM_MAPPING_ITEMS is  *)
(* the dict literal of SOCCER_TEAM_MAPPING as written, <<key, value>>.     *)
(***************************************************************************)
\* an alias table in which two teams share the alias "la"
SharedAliasTable ==
  << <<"Los Angeles Clippers", <<"clippers", "la">>>>,
     <<"Los Angeles Lakers", <<"lakers", "la">>>> >>

NBA_TEAM_ALIASES ==
  << <<"Boston Celtics", <<"celtics", "boston">>>>,
     <<"Brooklyn Nets", <<"nets", "brooklyn">>>>,
     <<"New York Knicks", <<"knicks", "new york", "ny knicks">>>>,
     <<"Philadelphia 76ers", <<"76ers", "sixers", "philadelphia", "philly">>>>,
     <<"Toronto Raptors", <<"raptors", "toronto">>>>,
     <<"Chicago Bulls", <<"bulls", "chicago">>>>,
     <<"Cleveland Cavaliers", <<"cavaliers", "cavs", "cleveland">>>>,
     <<"Detroit Pistons", <<"pistons", "detroit">>>>,
     <<"Indiana Pacers", <<"pacers", "indiana">>>>,
     <<"Milwaukee Bucks", <<"bucks", "milwaukee">>>>,
     <<"Atlanta Hawks", <<"hawks", "atlanta">>>>,
     <<"Charlotte Hornets", <<"hornets", "charlotte">>>>,
     <<"Miami Heat", <<"heat", "miami">>>>,
     <<"Orlando Magic", <<"magic", "orlando">>>>,
     <<"Washington Wizards", <<"wizards", "washington">>>>,
     <<"Denver Nuggets", <<"nuggets", "denver">>>>,
     <<"Minnesota Timberwolves", <<"timberwolves", "wolves", "minnesota">>>>,
     <<"Oklahoma City Thunder", <<"thunder", "okc", "oklahoma">>>>,
     <<"Portland Trail Blazers", <<"trail blazers", "blazers", "portland">>>>,
     <<"Utah Jazz", <<"jazz", "utah">>>>,
     <<"Golden State Warriors", <<"warriors", "golden state", "gsw">>>>,
     <<"Los Angeles Clippers", <<"clippers", "la clippers", "lac">>>>,
     <<"Los Angeles Lakers", <<"lakers", "la lakers", "lal">>>>,
     <<"Phoenix Suns", <<"suns", "phoenix">>>>,
     <<"Sacramento Kings", <<"kings", "sacramento">>>>,
     <<"Dallas Mavericks", <<"mavericks", "mavs", "dallas">>>>,
     <<"Houston Rockets", <<"rockets", "houston">>>>,
     <<"Memphis Grizzlies", <<"grizzlies", "memphis">>>>,
     <<"New Orleans Pelicans", <<"pelicans", "new orleans">>>>,
     <<"San Antonio Spurs", <<"spurs", "san antonio">>>> >>

SOCCER_TEAM_ALIASES ==
  << <<"Arsenal", <<"arsenal", "gunners">>>>,
     <<"Manchester City", <<"man city", "city", "manchester city">>>>,
     <<"Liverpool", <<"liverpool", "reds">>>>,
     <<"Chelsea", <<"chelsea", "blues">>>>,
     <<"Manchester United", <<"man utd", "man united", "manchester united", "united">>>>,
     <<"Tottenham Hotspur", <<"tottenham", "spurs", "tottenham hotspur">>>>,
     <<"Newcastle United", <<"newcastle", "magpies", "newcastle united">>>>,
     <<"Aston Villa", <<"aston villa", "villa">>>>,
     <<"Brighton and Hove Albion", <<"brighton", "brighton hove albion", "seagulls">>>>,
     <<"West Ham United", <<"west ham", "hammers", "west ham united">>>>,
     <<"Fulham", <<"fulham", "cottagers">>>>,
     <<"Brentford", <<"brentford", "bees">>>>,
     <<"Crystal Palace", <<"crystal palace", "palace", "eagles">>>>,
     <<"Everton", <<"everton", "toffees">>>>,
     <<"Nottingham Forest", <<"nottingham forest", "forest", "nott'm forest">>>>,
     <<"AFC Bournemouth", <<"bournemouth", "afc bournemouth", "cherries">>>>,
     <<"Wolverhampton Wanderers", <<"wolves", "wolverhampton", "wolverhampton wanderers">>>>,
     <<"Leicester City", <<"leicester", "foxes", "leicester city">>>>,
     <<"Ipswich Town", <<"ipswich", "ipswich town", "tractor boys">>>>,
     <<"Southampton", <<"southampton", "saints">>>>,
     <<"Real Madrid", <<"real madrid", "real", "los blancos">>>>,
     <<"Barcelona", <<"barcelona", "barca", "fcb">>>>,
     <<"Bayern Munich", <<"bayern", "bayern munich", "bayern munchen">>>>,
     <<"Paris Saint Germain", <<"psg", "paris", "paris saint-germain", "paris sg">>>>,
     <<"Juventus", <<"juventus", "juve">>>>,
     <<"AC Milan", <<"ac milan", "milan">>>>,
     <<"Inter Milan", <<"inter", "inter milan", "internazionale">>>>,
     <<"Atletico Madrid", <<"atletico", "atletico madrid", "atleti">>>>,
     <<"Borussia Dortmund", <<"dortmund", "bvb", "borussia dortmund">>>>,
     <<"RB Leipzig", <<"leipzig", "rb leipzig">>>>,
     <<"Benfica", <<"benfica", "sl benfica">>>>,
     <<"FC Porto", <<"porto", "fc porto">>>>,
     <<"Ajax", <<"ajax", "afc ajax">>>>,
     <<"Napoli", <<"napoli", "ssc napoli">>>>,
     <<"Sevilla", <<"sevilla", "sevilla fc">>>>,
     <<"Sporting CP", <<"sporting", "sporting cp", "sporting lisbon">>>>,
     <<"Celtic", <<"celtic", "celtic fc">>>>,
     <<"PSV Eindhoven", <<"psv", "psv eindhoven">>>>,
     <<"Feyenoord", <<"feyenoord">>>>,
     <<"Club Brugge", <<"club brugge", "brugge">>>>,
     <<"Red Bull Salzburg", <<"salzburg", "rb salzburg", "red bull salzburg">>>>,
     <<"Shakhtar Donetsk", <<"shakhtar", "shakhtar donetsk">>>>,
     <<"Galatasaray", <<"galatasaray", "gala">>>>,
     <<"Lazio", <<"lazio", "ss lazio">>>>,
     <<"Atalanta", <<"atalanta">>>>,
     <<"Monaco", <<"monaco", "as monaco">>>>,
     <<"Lille", <<"lille", "losc", "losc lille">>>>,
     <<"Bayer Leverkusen", <<"leverkusen", "bayer leverkusen">>>>,
     <<"VfB Stuttgart", <<"stuttgart", "vfb stuttgart">>>> >>

SOCCER_TEAM_MAPPING_ITEMS ==
  << <<"Wolverhampton Wanderers", "Wolves">>,
     <<"Wolverhampton Wanderers FC", "Wolves">>,
     <<"Brighton and Hove Albion", "Brighton">>,
     <<"Brighton and Hove Albion FC", "Brighton">>,
     <<"Brighton & Hove Albion FC", "Brighton">>,
     <<"Leeds United", "Leeds United">>,
     <<"Leeds United FC", "Leeds United">>,
     <<"West Ham United", "West Ham">>,
     <<"West Ham United FC", "West Ham">>,
     <<"Manchester United", "Manchester United">>,
     <<"Manchester United FC", "Manchester United">>,
     <<"Manchester City", "Manchester City">>,
     <<"Manchester City FC", "Manchester City">>,
     <<"Newcastle United", "Newcastle">>,
     <<"Newcastle United FC", "Newcastle">>,
     <<"Tottenham Hotspur", "Tottenham">>,
     <<"Tottenham Hotspur FC", "Tottenham">>,
     <<"Nottingham Forest", "Nottingham Forest">>,
     <<"Nottingham Forest FC", "Nottingham Forest">>,
     <<"Sheffield United", "Sheffield United">>,
     <<"Sheffield United FC", "Sheffield United">>,
     <<"Leicester City", "Leicester">>,
     <<"Leicester City FC", "Leicester">>,
     <<"AFC Bournemouth", "Bournemouth">>,
     <<"Bournemouth FC", "Bournemouth">>,
     <<"Ipswich Town", "Ipswich">>,
     <<"Ipswich Town FC", "Ipswich">>,
     <<"Arsenal", "Arsenal">>,
     <<"Arsenal FC", "Arsenal">>,
     <<"Chelsea", "Chelsea">>,
     <<"Chelsea FC", "Chelsea">>,
     <<"Liverpool", "Liverpool">>,
     <<"Liverpool FC", "Liverpool">>,
     <<"Everton", "Everton">>,
     <<"Everton FC", "Everton">>,
     <<"Aston Villa", "Aston Villa">>,
     <<"Aston Villa FC", "Aston Villa">>,
     <<"Crystal Palace", "Crystal Palace">>,
     <<"Crystal Palace FC", "Crystal Palace">>,
     <<"Fulham", "Fulham">>,
     <<"Fulham FC", "Fulham">>,
     <<"Brentford", "Brentford">>,
     <<"Brentford FC", "Brentford">>,
     <<"Southampton", "Southampton">>,
     <<"Southampton FC", "Southampton">>,
     <<"Paris Saint Germain", "PSG">>,
     <<"Paris Saint-Germain FC", "PSG">>,
     <<"Bayern Munich", "Bayern">>,
     <<"FC Bayern Munich", "Bayern">>,
     <<"Borussia Dortmund", "Dortmund">>,
     <<"RB Leipzig", "Leipzig">>,
     <<"Atletico Madrid", "Atletico">>,
     <<"Club Atlético De Madrid", "Atletico">>,
     <<"Inter Milan", "Inter">>,
     <<"AC Milan", "Milan">>,
     <<"Red Bull Salzburg", "Salzburg">>,
     <<"PSV Eindhoven", "PSV">>,
     <<"Shakhtar Donetsk", "Shakhtar">>,
     <<"Bayer Leverkusen", "Leverkusen">>,
     <<"VfB Stuttgart", "Stuttgart">>,
     <<"Sporting CP", "Sporting">>,
     <<"Sporting Lisbon", "Sporting">>,
     <<"FK Bodø/Glimt", "Bodo Glimt">>,
     <<"Bodo/Glimt", "Bodo Glimt">>,
     <<"Qairat FK", "Kairat Almaty">>,
     <<"FC Kairat", "Kairat Almaty">>,
     <<"Real Madrid", "Real Madrid">>,
     <<"Real Madrid CF", "Real Madrid">>,
     <<"FC Barcelona", "Barcelona">>,
     <<"Juventus", "Juventus">>,
     <<"Juventus FC", "Juventus">>,
     <<"Benfica", "Benfica">>,
     <<"SL Benfica", "Benfica">>,
     <<"Feyenoord", "Feyenoord">>,
     <<"Feyenoord Rotterdam", "Feyenoord">>,
     <<"Club Brugge", "Club Brugge">>,
     <<"Club Brugge KV", "Club Brugge">>,
     <<"Lille", "Lille">>,
     <<"Lille OSC", "Lille">>,
     <<"Celtic", "Celtic">>,
     <<"Celtic FC", "Celtic">>,
     <<"Monaco", "Monaco">>,
     <<"AS Monaco", "Monaco">>,
     <<"Atalanta", "Atalanta">>,
     <<"Atalanta BC", "Atalanta">>,
     <<"Aston Villa", "Aston Villa">>,
     <<"Girona", "Girona">>,
     <<"Girona FC", "Girona">>,
     <<"Stuttgart", "Stuttgart">>,
     <<"Dinamo Zagreb", "Dinamo Zagreb">>,
     <<"GNK Dinamo Zagreb", "Dinamo Zagreb">>,
     <<"Slovan Bratislava", "Slovan Bratislava">>,
     <<"SK Slovan Bratislava", "Slovan Bratislava">>,
     <<"Sturm Graz", "Sturm Graz">>,
     <<"SK Sturm Graz", "Sturm Graz">>,
     <<"Bologna", "Bologna">>,
     <<"Bologna FC", "Bologna">>,
     <<"Sparta Praha", "Sparta Prague">>,
     <<"Sparta Prague", "Sparta Prague">>,
     <<"AC Sparta Praha", "Sparta Prague">>,
     <<"Young Boys", "Young Boys">>,
     <<"BSC Young Boys", "Young Boys">>,
     <<"Crvena Zvezda", "Red Star Belgrade">>,
     <<"Red Star Belgrade", "Red Star Belgrade">>,
     <<"FK Crvena Zvezda", "Red Star Belgrade">> >>

\* MAPPING, one <<standard name, web2 name, poly name>> per entry
MAPPING ==
  << <<"Arsenal", "Arsenal", "Arsenal">>,
     <<"Manchester City", "Manchester City", "Manchester City">>,
     <<"Liverpool", "Liverpool", "Liverpool">>,
     <<"Chelsea", "Chelsea", "Chelsea">>,
     <<"Manchester United", "Manchester United", "Manchester United">>,
     <<"Tottenham", "Tottenham Hotspur", "Tottenham">>,
     <<"Newcastle", "Newcastle United", "Newcastle">>,
     <<"Aston Villa", "Aston Villa", "Aston Villa">>,
     <<"Brighton", "Brighton and Hove Albion", "Brighton">>,
     <<"West Ham", "West Ham United", "West Ham">>,
     <<"Fulham", "Fulham", "Fulham">>,
     <<"Brentford", "Brentford", "Brentford">>,
     <<"Crystal Palace", "Crystal Palace", "Crystal Palace">>,
     <<"Everton", "Everton", "Everton">>,
     <<"Nottingham Forest", "Nottingham Forest", "Nottingham Forest">>,
     <<"Bournemouth", "AFC Bournemouth", "Bournemouth">>,
     <<"Wolves", "Wolverhampton Wanderers", "Wolves">>,
     <<"Leicester", "Leicester City", "Leicester">>,
     <<"Ipswich", "Ipswich Town", "Ipswich">>,
     <<"Southampton", "Southampton", "Southampton">>,
     <<"Real Madrid", "Real Madrid", "Real Madrid">>,
     <<"Barcelona", "Barcelona", "Barcelona">>,
     <<"Bayern Munich", "Bayern Munich", "Bayern Munich">>,
     <<"Paris Saint-Germain", "Paris Saint Germain", "PSG">>,
     <<"Juventus", "Juventus", "Juventus">>,
     <<"AC Milan", "AC Milan", "AC Milan">>,
     <<"Inter Milan", "Inter Milan", "Inter Milan">>,
     <<"Atletico Madrid", "Atletico Madrid", "Atletico Madrid">>,
     <<"Borussia Dortmund", "Borussia Dortmund", "Dortmund">>,
     <<"RB Leipzig", "RB Leipzig", "Leipzig">>,
     <<"Benfica", "Benfica", "Benfica">>,
     <<"Porto", "FC Porto", "Porto">>,
     <<"Ajax", "Ajax", "Ajax">>,
     <<"Napoli", "Napoli", "Napoli">>,
     <<"Sevilla", "Sevilla", "Sevilla">>,
     <<"Sporting CP", "Sporting CP", "Sporting">>,
     <<"Celtic", "Celtic", "Celtic">>,
     <<"PSV", "PSV Eindhoven", "PSV">>,
     <<"Feyenoord", "Feyenoord", "Feyenoord">>,
     <<"Club Brugge", "Club Brugge", "Club Brugge">>,
     <<"Red Bull Salzburg", "Red Bull Salzburg", "Salzburg">>,
     <<"Shakhtar Donetsk", "Shakhtar Donetsk", "Shakhtar">>,
     <<"Dinamo Zagreb", "Dinamo Zagreb", "Dinamo Zagreb">>,
     <<"Young Boys", "Young Boys", "Young Boys">>,
     <<"Galatasaray", "Galatasaray", "Galatasaray">>,
     <<"Lazio", "Lazio", "Lazio">>,
     <<"Atalanta", "Atalanta", "Atalanta">>,
     <<"Monaco", "Monaco", "Monaco">>,
     <<"Lille", "Lille", "Lille">>,
     <<"Bayer Leverkusen", "Bayer Leverkusen", "Leverkusen">>,
     <<"Stuttgart", "VfB Stuttgart", "Stuttgart">>,
     <<"Girona", "Girona", "Girona">>,
     <<"Bologna", "Bologna", "Bologna">>,
     <<"Brest", "Stade Brestois 29", "Brest">>,
     <<"Sparta Prague", "Sparta Prague", "Sparta Prague">>,
     <<"Sturm Graz", "Sturm Graz", "Sturm Graz">>,
     <<"Slovan Bratislava", "Slovan Bratislava", "Slovan Bratislava">>,
     <<"Boston Celtics", "Boston Celtics", "Boston Celtics">>,
     <<"Denver Nuggets", "Denver Nuggets", "Denver Nuggets">>,
     <<"Los Angeles Lakers", "Los Angeles Lakers", "Lakers">>,
     <<"Golden State Warriors", "Golden State Warriors", "Warriors">>,
     <<"Milwaukee Bucks", "Milwaukee Bucks", "Bucks">>,
     <<"Phoenix Suns", "Phoenix Suns", "Suns">>,
     <<"Philadelphia 76ers", "Philadelphia 76ers", "76ers">>,
     <<"Miami Heat", "Miami Heat", "Heat">>,
     <<"Cleveland Cavaliers", "Cleveland Cavaliers", "Cavaliers">>,
     <<"New York Knicks", "New York Knicks", "Knicks">>,
     <<"Dallas Mavericks", "Dallas Mavericks", "Mavericks">>,
     <<"Memphis Grizzlies", "Memphis Grizzlies", "Grizzlies">>,
     <<"Sacramento Kings", "Sacramento Kings", "Kings">>,
     <<"LA Clippers", "Los Angeles Clippers", "Clippers">>,
     <<"Minnesota Timberwolves", "Minnesota Timberwolves", "Timberwolves">>,
     <<"New Orleans Pelicans", "New Orleans Pelicans", "Pelicans">>,
     <<"Oklahoma City Thunder", "Oklahoma City Thunder", "Thunder">>,
     <<"Brooklyn Nets", "Brooklyn Nets", "Nets">>,
     <<"Atlanta Hawks", "Atlanta Hawks", "Hawks">>,
     <<"Chicago Bulls", "Chicago Bulls", "Bulls">>,
     <<"Toronto Raptors", "Toronto Raptors", "Raptors">>,
     <<"Indiana Pacers", "Indiana Pacers", "Pacers">>,
     <<"Orlando Magic", "Orlando Magic", "Magic">>,
     <<"Houston Rockets", "Houston Rockets", "Rockets">>,
     <<"Argentina", "Argentina", "Argentina">>,
     <<"Brazil", "Brazil", "Brazil">>,
     <<"France", "France", "France">>,
     <<"Germany", "Germany", "Germany">>,
     <<"England", "England", "England">>,
     <<"Spain", "Spain", "Spain">>,
     <<"Portugal", "Portugal", "Portugal">>,
     <<"Netherlands", "Netherlands", "Netherlands">>,
     <<"Belgium", "Belgium", "Belgium">>,
     <<"Italy", "Italy", "Italy">>,
     <<"Croatia", "Croatia", "Croatia">>,
     <<"Uruguay", "Uruguay", "Uruguay">>,
     <<"USA", "United States", "USA">>,
     <<"Mexico", "Mexico", "Mexico">>,
     <<"Japan", "Japan", "Japan">> >>
(***************************************************************************)
(* Python dict semantics over a dict literal written as a sequence of      *)
(* <<key, value>> items: a repeated key keeps its first position and takes *)
(* its last value.                                                         *)
(***************************************************************************)
DictGet(items, k) ==
  items[CHOOSE i \in 1..Len(items) :
          /\ items[i][1] = k
          /\ \A j \in (i + 1)..Len(items) : items[j][1] # k][2]

\* the dict as a function from its keys
DictOf(items) == [k \in {items[i][1] : i \in 1..Len(items)} |-> DictGet(items, k)]

\* the positions of the keys in iteration order (first occurrence of each key)
DictKeyPositions(items) ==
  {i \in 1..Len(items) : \A j \in 1..(i - 1) : items[j][1] # items[i][1]}

\* the last key, in iteration order, whose value is v
LastKeyOf(items, v) ==
  items[CHOOSE i \in DictKeyPositions(items) :
          /\ DictGet(items, items[i][1]) = v
          /\ \A j \in DictKeyPositions(items) :
               j > i => DictGet(items, items[j][1]) # v][1]

\* {v: k for k, v in d.items()}
DictReversed(items) ==
  [v \in {DictGet(items, items[i][1]) : i \in 1..Len(items)} |-> LastKeyOf(items, v)]

Range(f) == {f[k] : k \in DOMAIN f}

SOCCER_TEAM_MAPPING == DictOf(SOCCER_TEAM_MAPPING_ITEMS)

SOCCER_TEAM_MAPPING_REVERSE == DictReversed(SOCCER_TEAM_MAPPING_ITEMS)

(***************************************************************************)
(* Regular expressions of the normalizer.                                  *)
(***************************************************************************)
RECURSIVE CountUpper(_, _)
\* number of leading upper-case letters of s from index i, counted up to 5
CountUpper(s, i) ==
  IF i <= Len(s) /\ i <= 5 /\ IsUpper(CharAt(s, i)) THEN 1 + CountUpper(s, i + 1) ELSE 0

\* re.sub(r'^[A-Z]{2,4}\d?\s+', '', s)
StripTicker(s) ==
  LET k     == CountUpper(s, 1)
      afterD == IF k + 1 <= Len(s) /\ CharAt(s, k + 1) \in Digits THEN k + 2 ELSE k + 1
      rest  == SkipSpaces(s, afterD)
  IN  IF k >= 2 /\ k <= 4 /\ rest > afterD THEN SubSeq(s, rest, Len(s)) ELSE s

\* re.sub(r'\s*(FC|AFC|CF)$', '', s, flags=re.IGNORECASE)
StripClubSuffix(s) ==
  LET l   == lower(s)
      tok == IF EndsWith(l, "afc") THEN 3
             ELSE IF EndsWith(l, "fc") \/ EndsWith(l, "cf") THEN 2
             ELSE 0
  IN  IF tok = 0 THEN s ELSE SubSeq(s, 1, SkipSpacesBack(s, Len(s) - tok))

\* the first of the names that is in the set S, or None
FirstMember(names, S) ==
  IF \E i \in 1..Len(names) : names[i] \in S
  THEN names[CHOOSE i \in 1..Len(names) :
               names[i] \in S /\ \A j \in 1..(i - 1) : names[j] \notin S]
  ELSE None

\* name_stripped, name_no_ticker, name_clean, name_no_ticker_clean
WithClean(name_stripped, name_no_ticker) ==
  <<name_stripped, name_no_ticker,
    strip(StripClubSuffix(name_stripped)), strip(StripClubSuffix(name_no_ticker))>>

NameVariants(name_stripped) ==
  WithClean(name_stripped, strip(StripTicker(name_stripped)))

\* the lookups over the variants without ticker only (v[2] and v[4])
NormalizeLookupNoTicker(v, mapping) ==
  IF FirstMember(<<v[2], v[4]>>, DOMAIN mapping) # None
  THEN mapping[FirstMember(<<v[2], v[4]>>, DOMAIN mapping)]
  ELSE IF FirstMember(<<v[2], v[4]>>, Range(mapping)) # None
  THEN FirstMember(<<v[2], v[4]>>, Range(mapping))
  ELSE v[4]

\* the lookups of normalize_team_for_matching over the four variants v: the
\* keys of the mapping, then its values, else name_no_ticker_clean
NormalizeLookup(v, mapping) ==
  IF FirstMember(v, DOMAIN mapping) # None THEN mapping[FirstMember(v, DOMAIN mapping)]
  ELSE IF FirstMember(v, Range(mapping)) # None THEN FirstMember(v, Range(mapping))
  ELSE v[4]

normalize_team_for_matching(name) ==
  NormalizeLookup(NameVariants(strip(name)), SOCCER_TEAM_MAPPING)

(***************************************************************************)
(* The resolvers.  An alias table is a sequence of <<team, aliases>>, in   *)
(* the dict's iteration order.  A result is <<team or None, score>>.       *)
(***************************************************************************)
AliasHit(entry, name_lower) ==
  \/ name_lower = lower(entry[1])
  \/ \E k \in 1..Len(entry[2]) : name_lower = lower(entry[2][k])

\* the exact pass: the first team whose name or alias equals name_lower
ExactAliasMatch(table, name_lower) ==
  IF \E t \in 1..Len(table) : AliasHit(table[t], name_lower)
  THEN table[CHOOSE t \in 1..Len(table) :
               /\ AliasHit(table[t], name_lower)
               /\ \A u \in 1..(t - 1) : ~AliasHit(table[u], name_lower)][1]
  ELSE None

\* a test that also lets a candidate with an equal score replace the best
ImprovesOrTies(best, score) == score >= best[2]

\* if score > best_score: (the test that lets a candidate replace the best)
Improves(best, score) == score > best[2]

\* the substring rule of fuzzy_match_team: alias.lower() in name_lower
PartialNba(alias_lower, name_lower) == Contains(alias_lower, name_lower)

\* the substring rule of fuzzy_match_soccer_team:
\* alias.lower() in name_lower or name_lower in alias.lower()
PartialSoccer(alias_lower, name_lower) ==
  Contains(alias_lower, name_lower) \/ Contains(name_lower, alias_lower)

Partial(alias_lower, name_lower, soccer) ==
  IF soccer THEN PartialSoccer(alias_lower, name_lower) ELSE PartialNba(alias_lower, name_lower)

RECURSIVE FuzzyAliases(_, _, _, _, _, _)
RECURSIVE FuzzyPartial(_, _, _, _, _, _)
\* the inner loop over the aliases of one team, from alias k: the ratio test
FuzzyAliases(best, team, aliases, k, name_lower, soccer) ==
  IF k > Len(aliases) THEN best
  ELSE IF Improves(best, ratio(name_lower, lower(aliases[k])))
       THEN FuzzyPartial(<<team, ratio(name_lower, lower(aliases[k]))>>,
                         team, aliases, k, name_lower, soccer)
       ELSE FuzzyPartial(best, team, aliases, k, name_lower, soccer)

\* the same iteration, after the ratio test: the substring test (score = 90)
FuzzyPartial(best, team, aliases, k, name_lower, soccer) ==
  IF Partial(lower(aliases[k]), name_lower, soccer) /\ Improves(best, 90)
  THEN FuzzyAliases(<<team, 90>>, team, aliases, k + 1, name_lower, soccer)
  ELSE FuzzyAliases(best, team, aliases, k + 1, name_lower, soccer)

RECURSIVE FuzzyTeams(_, _, _, _, _)
\* the outer loop over the teams, from team t
FuzzyTeams(best, table, t, name_lower, soccer) ==
  IF t > Len(table) THEN best
  ELSE IF Improves(best, ratio(name_lower, lower(table[t][1])))
       THEN FuzzyTeams(FuzzyAliases(<<table[t][1], ratio(name_lower, lower(table[t][1]))>>,
                                    table[t][1], table[t][2], 1, name_lower, soccer),
                       table, t + 1, name_lower, soccer)
       ELSE FuzzyTeams(FuzzyAliases(best, table[t][1], table[t][2], 1, name_lower, soccer),
                       table, t + 1, name_lower, soccer)

\* a gate that rejects a best score equal to the threshold
ThresholdGateStrict(best, threshold) == IF best[2] > threshold THEN best ELSE <<None, 0>>

\* no gate: the best candidate is returned whatever its score
ThresholdGateOpen(best, threshold) == best

\* if best_score >= threshold: return best_match, best_score; return None, 0
ThresholdGate(best, threshold) == IF best[2] >= threshold THEN best ELSE <<None, 0>>

\* the exact pass, then the best-score pass, over one alias table
TablePasses(table, name_lower, threshold, soccer) ==
  IF ExactAliasMatch(table, name_lower) # None
  THEN <<ExactAliasMatch(table, name_lower), 100>>
  ELSE ThresholdGate(FuzzyTeams(<<None, 0>>, table, 1, name_lower, soccer), threshold)

fuzzy_match_team(name, threshold) ==
  TablePasses(NBA_TEAM_ALIASES, strip(lower(name)), threshold, FALSE)

\* mapped_name.lower() in [a.lower() for a in aliases] or mapped_name.lower() == team.lower()
MappedHit(entry, mapped_lower) ==
  \/ \E k \in 1..Len(entry[2]) : mapped_lower = lower(entry[2][k])
  \/ mapped_lower = lower(entry[1])

\* the first team of the table that the strict-dictionary value names, or None
TeamOfMapped(table, mapped_lower) ==
  IF \E t \in 1..Len(table) : MappedHit(table[t], mapped_lower)
  THEN table[CHOOSE t \in 1..Len(table) :
               /\ MappedHit(table[t], mapped_lower)
               /\ \A u \in 1..(t - 1) : ~MappedHit(table[u], mapped_lower)][1]
  ELSE None

\* the first team of the table whose canonical name is original_lower, or None
TeamNamed(table, original_lower) ==
  IF \E t \in 1..Len(table) : original_lower = lower(table[t][1])
  THEN table[CHOOSE t \in 1..Len(table) :
               /\ original_lower = lower(table[t][1])
               /\ \A u \in 1..(t - 1) : original_lower # lower(table[u][1])][1]
  ELSE None

\* return team, 100 inside the loop, else return fallback, 100 after it
FoundOr(team, fallback) == IF team # None THEN <<team, 100>> ELSE <<fallback, 100>>

\* the strict dictionary (keys, then values), then the passes over the table
StrictThenFuzzy(name_stripped, threshold, table, mapping, reverse) ==
  IF name_stripped \in DOMAIN mapping
  THEN FoundOr(TeamOfMapped(table, lower(mapping[name_stripped])), name_stripped)
  ELSE IF name_stripped \in DOMAIN reverse
  THEN FoundOr(TeamNamed(table, lower(reverse[name_stripped])), reverse[name_stripped])
  ELSE TablePasses(table, lower(name_stripped), threshold, TRUE)

fuzzy_match_soccer_team(name, threshold) ==
  StrictThenFuzzy(strip(name), threshold, SOCCER_TEAM_ALIASES,
                  SOCCER_TEAM_MAPPING, SOCCER_TEAM_MAPPING_REVERSE)

(***************************************************************************)
(* State.  A behaviour is one run of one operation of the scraper.         *)
(*   sport : "nba" (match_daily_games), "soccer" (match_soccer_games), or  *)
(*       None when the run is not a pairing run                            *)
(*   web2_matches, poly_matches : the two input lists of a pairing run     *)
(*   merged, matched_poly_indices : the locals of the pairing functions    *)
(*   w2_pos : position of the first loop (over web2_matches)               *)
(*   poly_pos : position of the second loop (over poly_matches)            *)
(*   call : the pending call of a resolver, [fn, name, threshold]          *)
(*   result : <<>> before the call returns, <<value>> after                *)
(*   feed : the bookmaker response a fetcher is processing, [fn, data]     *)
(*   devigged : <<>> before the fetcher returns, <<value>> after           *)
(*   now : the database clock, in hours                                    *)
(*   daily_matches : the rows of the table daily_matches                   *)
(*   market_odds : the rows of the table market_odds, in insertion order   *)
(*   odds_history : the rows of the table odds_history, in insertion order *)
(*   job : the last run of the analysis job: the numbers of rows fetched   *)
(*         and what became of every row it processed                       *)
(***************************************************************************)
VARIABLES sport, web2_matches, poly_matches, merged, matched_poly_indices,
          w2_pos, poly_pos, call, result, feed, devigged,
          now, daily_matches, market_odds, odds_history, job

matchVars == <<sport, web2_matches, poly_matches, merged, matched_poly_indices,
               w2_pos, poly_pos>>

resolveVars == <<call, result>>

devigVars == <<feed, devigged>>

storeVars == <<now, daily_matches, market_odds, odds_history, job>>

vars == <<matchVars, resolveVars, devigVars, storeVars>>

\* no resolver call and no bookmaker response in this run
NoCall == [fn |-> None, name |-> "", threshold |-> 0]

NoFeed == [fn |-> None, data |-> <<>>]

\* the analysis job has not run
NoJob == [matches |-> 0, outcomes |-> <<>>, championships |-> 0,
          champ_outcomes |-> <<>>, raised |-> FALSE]

\* the tables are empty and the analysis job has not run
NoStoreRun ==
  /\ now = 0
  /\ daily_matches = {}
  /\ market_odds = <<>>
  /\ odds_history = <<>>
  /\ job = NoJob

\* default of the threshold parameter of both resolvers
DefaultThreshold == 75

\* list lengths of the explored inputs
MaxWeb2 == 2
MaxPoly == 2

(***************************************************************************)
(* Explored inputs.  A bookmaker event is what fetch_nba_matches_web2 and  *)
(* fetch_soccer_matches_web2 return (raw provider names); an NBA market    *)
(* event carries the canonical names fetch_nba_matches_polymarket stored,  *)
(* a soccer market event the raw names of the event title.  Prices are in  *)
(* units of 0.01, odds in units of 0.0001.                                 *)
(***************************************************************************)
NbaWeb2(home, away) ==
  [home_team |-> home, away_team |-> away, home_odds |-> 5200, away_odds |-> 4800]

NbaWeb2Events ==
  { NbaWeb2("Los Angeles Lakers", "Boston Celtics"),
    NbaWeb2("Celtics", "LA Lakers"),
    NbaWeb2("Lakerz", "Boston Celtic"),
    NbaWeb2("Seattle SuperSonics", "Boston Celtics"),
    NbaWeb2("Miami Heat", "New York Knicks") }

NbaPoly(t1, t2, p1, p2, l1, l2) ==
  [team1 |-> t1, team2 |-> t2, team1_price |-> p1, team2_price |-> p2,
   team1_liquidity |-> l1, team2_liquidity |-> l2]

NbaPolyEvents ==
  { NbaPoly("Los Angeles Lakers", "Boston Celtics", 55, 45, 900, 700),
    NbaPoly("Boston Celtics", "Los Angeles Lakers", 40, 60, NoneNum, 300),
    NbaPoly("Miami Heat", "New York Knicks", 35, 65, 500, NoneNum),
    NbaPoly("Denver Nuggets", "Utah Jazz", 80, 20, NoneNum, NoneNum) }

SoccerWeb2(home, away) ==
  [home_team |-> home, away_team |-> away,
   home_odds |-> 4000, draw_odds |-> 2500, away_odds |-> 3500]

SoccerWeb2Events ==
  { SoccerWeb2("Wolverhampton Wanderers", "Newcastle United"),
    SoccerWeb2("Newcastle United", "Wolverhampton Wanderers"),
    SoccerWeb2("Man Utd", "Spurs"),
    SoccerWeb2("Spurs", "Man Utd"),
    SoccerWeb2("Olympiacos", "Pafos"),
    SoccerWeb2("Arsenal", "Kairat Almaty") }

SoccerPoly(home, away, hp, dp, ap, hl, al) ==
  [home_team |-> home, away_team |-> away,
   home_price |-> hp, draw_price |-> dp, away_price |-> ap,
   home_liq |-> hl, draw_liq |-> NoneNum, away_liq |-> al]

SoccerPolyEvents ==
  { SoccerPoly("Wolves", "Newcastle United FC", 38, 25, 37, 800, 600),
    SoccerPoly("Tottenham Hotspur FC", "Manchester United FC", 30, 28, 42, NoneNum, 400),
    SoccerPoly("Qarabag", "Copenhagen", 70, 20, 10, 100, 200),
    SoccerPoly("Qairat FK", "Arsenal FC", NoneNum, 12, 85, NoneNum, 500),
    SoccerPoly("Spurs", "Man Utd", 45, 27, 28, 300, 350) }

\* all sequences over S of length at most n
SeqsUpTo(S, n) == UNION {[1..k -> S] : k \in 0..n}

\* the market list as the fetchers return it: the event at position i has
\* its own url, event_id and end time
Numbered(events) ==
  [i \in 1..Len(events) |->
     [f \in DOMAIN events[i] \cup {"url", "event_id", "end_time"} |->
        IF f \in {"url", "event_id", "end_time"} THEN i ELSE events[i][f]]]

\* the bookmaker list: the event at position i has match_id i
WithMatchId(events) ==
  [i \in 1..Len(events) |->
     [f \in DOMAIN events[i] \cup {"match_id"} |->
        IF f = "match_id" THEN <<"web2", i>> ELSE events[i][f]]]

\* the names that occur in the explored inputs
NbaNames ==
  {e.home_team : e \in NbaWeb2Events} \cup {e.away_team : e \in NbaWeb2Events}

SoccerNames ==
  {e.home_team : e \in SoccerWeb2Events \cup SoccerPolyEvents}
    \cup {e.away_team : e \in SoccerWeb2Events \cup SoccerPolyEvents}

\* fuzzy_match_team(name)[0] and fuzzy_match_soccer_team(name)[0] with the
\* default threshold, tabulated once for the names of the explored inputs
NbaResolved == [n \in NbaNames |-> fuzzy_match_team(n, DefaultThreshold)[1]]

SoccerResolved == [n \in SoccerNames |-> fuzzy_match_soccer_team(n, DefaultThreshold)[1]]

SoccerNormalized == [n \in SoccerNames |-> normalize_team_for_matching(n)]

(***************************************************************************)
(* match_daily_games                                                       *)
(***************************************************************************)
\* order 1: web2_home = poly_team1, web2_away = poly_team2
DailyForward(std_home, std_away, poly) ==
  std_home = poly.team1 /\ std_away = poly.team2

\* a scan that tries order 1 only
DailyNeverReverse(std_home, std_away, poly) == FALSE

\* order 2: web2_home = poly_team2, web2_away = poly_team1
DailyReverse(std_home, std_away, poly) ==
  std_home = poly.team2 /\ std_away = poly.team1

\* the first index of a scan that breaks at its first hit, or None
FirstHit(hits) == IF hits = {} THEN NoneNum ELSE CHOOSE i \in hits : \A j \in hits : i <= j

\* the index at which the scan over poly_matches breaks, or None
DailyScan(std_home, std_away, polys) ==
  FirstHit({idx \in 1..Len(polys) :
              \/ DailyForward(std_home, std_away, polys[idx])
              \/ DailyReverse(std_home, std_away, polys[idx])})

\* best_poly of the event found by the scan
DailyBestPoly(std_home, std_away, poly) ==
  IF DailyForward(std_home, std_away, poly)
  THEN [home_price |-> poly.team1_price, away_price |-> poly.team2_price,
        url |-> poly.url,
        home_liquidity |-> poly.team1_liquidity, away_liquidity |-> poly.team2_liquidity]
  ELSE [home_price |-> poly.team2_price, away_price |-> poly.team1_price,
        url |-> poly.url,
        home_liquidity |-> poly.team2_liquidity, away_liquidity |-> poly.team1_liquidity]

\* {**w2, key: value, ...}
Override(rec, upd) ==
  [f \in DOMAIN rec \cup DOMAIN upd |-> IF f \in DOMAIN upd THEN upd[f] ELSE rec[f]]

\* the record appended for one bookmaker event, and the index it consumed
DailyMerge(w2, std_home, std_away, polys) ==
  LET idx == DailyScan(std_home, std_away, polys)
  IN  IF std_home = None \/ std_away = None
      THEN [rec |-> Override(w2, [poly_home_price |-> NoneNum, poly_away_price |-> NoneNum,
                                  polymarket_url |-> NoneNum]),
            idx |-> NoneNum]
      ELSE IF idx # NoneNum
      THEN LET best_poly == DailyBestPoly(std_home, std_away, polys[idx])
           IN  [rec |-> Override(w2, [home_team |-> std_home, away_team |-> std_away,
                                      poly_home_price |-> best_poly.home_price,
                                      poly_away_price |-> best_poly.away_price,
                                      polymarket_url |-> best_poly.url,
                                      liquidity_home |-> best_poly.home_liquidity,
                                      liquidity_away |-> best_poly.away_liquidity]),
                idx |-> idx]
      ELSE [rec |-> Override(w2, [home_team |-> std_home, away_team |-> std_away,
                                  poly_home_price |-> NoneNum, poly_away_price |-> NoneNum,
                                  polymarket_url |-> NoneNum,
                                  liquidity_home |-> NoneNum, liquidity_away |-> NoneNum]),
            idx |-> NoneNum]

\* a second loop that also skips a market event without liquidity data
DailyPolyOnlySkipsIlliquid(poly) ==
  \/ poly.team1_price = NoneNum \/ poly.team2_price = NoneNum
  \/ poly.team1_liquidity = NoneNum \/ poly.team2_liquidity = NoneNum

\* the second loop skips a market event without both prices
DailyPolyOnlySkips(poly) == poly.team1_price = NoneNum \/ poly.team2_price = NoneNum

DailyPolyOnlyRecord(poly) ==
  [match_id |-> <<"poly", poly.event_id>>,
   home_team |-> poly.team1, away_team |-> poly.team2,
   commence_time |-> poly.end_time,
   home_odds |-> NoneNum, away_odds |-> NoneNum,
   poly_home_price |-> poly.team1_price, poly_away_price |-> poly.team2_price,
   polymarket_url |-> poly.url,
   liquidity_home |-> poly.team1_liquidity, liquidity_away |-> poly.team2_liquidity]

\* a first loop that stops before the last bookmaker event
InFirstLoopButLast == w2_pos < Len(web2_matches)

InFirstLoop  == w2_pos <= Len(web2_matches)
InSecondLoop == ~InFirstLoop /\ poly_pos <= Len(poly_matches)
Returned     == ~InFirstLoop /\ poly_pos > Len(poly_matches)

\* one iteration of "for w2 in web2_matches"
DailyWeb2Step ==
  /\ sport = "nba"
  /\ InFirstLoop
  /\ \E m \in {DailyMerge(web2_matches[w2_pos],
                           NbaResolved[web2_matches[w2_pos].home_team],
                           NbaResolved[web2_matches[w2_pos].away_team], poly_matches)} :
       /\ merged' = Append(merged, m.rec)
       /\ matched_poly_indices' =
            IF m.idx = NoneNum THEN matched_poly_indices ELSE matched_poly_indices \cup {m.idx}
  /\ w2_pos' = w2_pos + 1
  /\ UNCHANGED <<sport, web2_matches, poly_matches, poly_pos, resolveVars, devigVars, storeVars>>

\* one iteration of "for idx, poly in enumerate(poly_matches)"
DailyPolyOnlyStep ==
  /\ sport = "nba"
  /\ InSecondLoop
  /\ merged' = IF \/ poly_pos \in matched_poly_indices
                  \/ DailyPolyOnlySkips(poly_matches[poly_pos])
               THEN merged
               ELSE Append(merged, DailyPolyOnlyRecord(poly_matches[poly_pos]))
  /\ poly_pos' = poly_pos + 1
  /\ UNCHANGED <<sport, web2_matches, poly_matches, matched_poly_indices, w2_pos,
               resolveVars, devigVars, storeVars>>

(***************************************************************************)
(* match_soccer_games                                                      *)
(***************************************************************************)
\* forward match on the strictly normalized names; normalized tabulates
\* normalize_team_for_matching
StrictForward(w2, pm, normalized) ==
  /\ lower(normalized[pm.home_team]) = lower(normalized[w2.home_team])
  /\ lower(normalized[pm.away_team]) = lower(normalized[w2.away_team])

\* reverse match on the strictly normalized names
StrictReverse(w2, pm, normalized) ==
  /\ lower(normalized[pm.home_team]) = lower(normalized[w2.away_team])
  /\ lower(normalized[pm.away_team]) = lower(normalized[w2.home_team])

\* forward fuzzy match: the [0] of the resolver results are compared with ==;
\* resolved tabulates fuzzy_match_soccer_team(name)[0]
FuzzyForward(w2, pm, resolved) ==
  /\ resolved[pm.home_team] = resolved[w2.home_team]
  /\ resolved[pm.away_team] = resolved[w2.away_team]

\* reverse fuzzy match
FuzzyReverse(w2, pm, resolved) ==
  /\ resolved[pm.home_team] = resolved[w2.away_team]
  /\ resolved[pm.away_team] = resolved[w2.home_team]

\* the index at which the first scan (strict names) breaks, or None
StrictScan(w2, polys, normalized) ==
  FirstHit({idx \in 1..Len(polys) :
              \/ StrictForward(w2, polys[idx], normalized)
              \/ StrictReverse(w2, polys[idx], normalized)})

\* the index at which the second scan (fuzzy resolver) breaks, or None
FuzzyScan(w2, polys, resolved) ==
  FirstHit({idx \in 1..Len(polys) :
              \/ FuzzyForward(w2, polys[idx], resolved)
              \/ FuzzyReverse(w2, polys[idx], resolved)})

\* a reverse hit that swaps the prices and leaves the liquidities in place
SwappedPricesOnly(pm) ==
  [home_team |-> pm.away_team, away_team |-> pm.home_team,
   home_price |-> pm.away_price, draw_price |-> pm.draw_price,
   away_price |-> pm.home_price,
   home_liq |-> pm.home_liq, draw_liq |-> pm.draw_liq, away_liq |-> pm.away_liq,
   url |-> pm.url]

\* poly_match of a forward hit is pm itself, of a reverse hit pm swapped
Swapped(pm) ==
  [home_team |-> pm.away_team, away_team |-> pm.home_team,
   home_price |-> pm.away_price, draw_price |-> pm.draw_price,
   away_price |-> pm.home_price,
   home_liq |-> pm.away_liq, draw_liq |-> pm.draw_liq, away_liq |-> pm.home_liq,
   url |-> pm.url]

\* poly_match = None: no market event was found
NoPolyMatch ==
  [home_team |-> None, away_team |-> None,
   home_price |-> NoneNum, draw_price |-> NoneNum, away_price |-> NoneNum,
   home_liq |-> NoneNum, draw_liq |-> NoneNum, away_liq |-> NoneNum, url |-> NoneNum]

\* a single scan: the first market event that matches strictly or fuzzily
SoccerPickSinglePass(w2, polys, s, f, normalized, resolved) ==
  IF s # NoneNum /\ (f = NoneNum \/ s <= f)
  THEN [idx |-> s,
        poly_match |-> IF StrictForward(w2, polys[s], normalized)
                       THEN polys[s] ELSE Swapped(polys[s])]
  ELSE IF f # NoneNum
  THEN [idx |-> f,
        poly_match |-> IF FuzzyForward(w2, polys[f], resolved)
                       THEN polys[f] ELSE Swapped(polys[f])]
  ELSE [idx |-> NoneNum, poly_match |-> NoPolyMatch]

\* poly_match and matched_idx, from the indices s and f at which the strict
\* and the fuzzy scan break (the fuzzy scan runs only if the strict one fails)
SoccerPick(w2, polys, s, f, normalized, resolved) ==
  IF s # NoneNum
  THEN [idx |-> s,
        poly_match |-> IF StrictForward(w2, polys[s], normalized)
                       THEN polys[s] ELSE Swapped(polys[s])]
  ELSE IF f # NoneNum
  THEN [idx |-> f,
        poly_match |-> IF FuzzyForward(w2, polys[f], resolved)
                       THEN polys[f] ELSE Swapped(polys[f])]
  ELSE [idx |-> NoneNum, poly_match |-> NoPolyMatch]

SoccerFind(w2, polys, normalized, resolved) ==
  SoccerPick(w2, polys, StrictScan(w2, polys, normalized), FuzzyScan(w2, polys, resolved),
             normalized, resolved)

\* the record appended for one bookmaker event
SoccerMergedRecord(w2, poly_match) ==
  IF poly_match # NoPolyMatch
  THEN Override(w2, [poly_home_price |-> poly_match.home_price,
                     poly_draw_price |-> poly_match.draw_price,
                     poly_away_price |-> poly_match.away_price,
                     polymarket_url  |-> poly_match.url,
                     liquidity_home  |-> poly_match.home_liq,
                     liquidity_draw  |-> poly_match.draw_liq,
                     liquidity_away  |-> poly_match.away_liq])
  ELSE Override(w2, [poly_home_price |-> NoneNum, poly_draw_price |-> NoneNum,
                     poly_away_price |-> NoneNum, polymarket_url |-> NoneNum,
                     liquidity_home |-> NoneNum, liquidity_draw |-> NoneNum,
                     liquidity_away |-> NoneNum])

\* the second loop skips a market event without both prices
SoccerPolyOnlySkips(pm) == pm.home_price = NoneNum \/ pm.away_price = NoneNum

SoccerPolyOnlyRecord(idx, pm) ==
  [match_id |-> <<"poly", idx>>,
   home_team |-> strip(StripClubSuffix(pm.home_team)),
   away_team |-> strip(StripClubSuffix(pm.away_team)),
   commence_time |-> pm.end_time,
   web2_home_odds |-> NoneNum, web2_away_odds |-> NoneNum, web2_draw_odds |-> NoneNum,
   poly_home_price |-> pm.home_price, poly_draw_price |-> pm.draw_price,
   poly_away_price |-> pm.away_price,
   polymarket_url |-> pm.url,
   liquidity_home |-> pm.home_liq, liquidity_draw |-> pm.draw_liq,
   liquidity_away |-> pm.away_liq]

\* one iteration of "for web2_match in web2_matches"
SoccerWeb2Step ==
  /\ sport = "soccer"
  /\ InFirstLoop
  /\ \E found \in {SoccerFind(web2_matches[w2_pos], poly_matches,
                               SoccerNormalized, SoccerResolved)} :
       /\ merged' = Append(merged, SoccerMergedRecord(web2_matches[w2_pos], found.poly_match))
       /\ matched_poly_indices' =
            IF found.idx = NoneNum THEN matched_poly_indices
            ELSE matched_poly_indices \cup {found.idx}
  /\ w2_pos' = w2_pos + 1
  /\ UNCHANGED <<sport, web2_matches, poly_matches, poly_pos, resolveVars, devigVars, storeVars>>

\* one iteration of "for idx, pm in enumerate(poly_matches)"
SoccerPolyOnlyStep ==
  /\ sport = "soccer"
  /\ InSecondLoop
  /\ merged' = IF \/ poly_pos \in matched_poly_indices
                  \/ SoccerPolyOnlySkips(poly_matches[poly_pos])
               THEN merged
               ELSE Append(merged, SoccerPolyOnlyRecord(poly_pos, poly_matches[poly_pos]))
  /\ poly_pos' = poly_pos + 1
  /\ UNCHANGED <<sport, web2_matches, poly_matches, matched_poly_indices, w2_pos,
               resolveVars, devigVars, storeVars>>

(***************************************************************************)
(* A pairing run: the lists are the arguments of the call.                 *)
(***************************************************************************)
\* fetch_nba_matches_polymarket keeps one event per sorted pair of teams
OnePerMatchKey(p) ==
  \A i, j \in DOMAIN p : i # j => {p[i].team1, p[i].team2} # {p[j].team1, p[j].team2}

MatchInit ==
  /\ sport \in {"nba", "soccer"}
  /\ \E w \in SeqsUpTo(IF sport = "nba" THEN NbaWeb2Events ELSE SoccerWeb2Events, MaxWeb2) :
       web2_matches = WithMatchId(w)
  /\ \E p \in SeqsUpTo(IF sport = "nba" THEN NbaPolyEvents ELSE SoccerPolyEvents, MaxPoly) :
       /\ sport = "nba" => OnePerMatchKey(p)
       /\ poly_matches = Numbered(p)
  /\ merged = <<>>
  /\ matched_poly_indices = {}
  /\ w2_pos = 1
  /\ poly_pos = 1
  /\ call = NoCall
  /\ result = <<>>
  /\ feed = NoFeed
  /\ devigged = <<>>
  /\ NoStoreRun

MatchNext ==
  \/ DailyWeb2Step
  \/ DailyPolyOnlyStep
  \/ SoccerWeb2Step
  \/ SoccerPolyOnlyStep

SpecMatch == MatchInit /\ [][MatchNext]_vars

(***************************************************************************)
(* standardize_name                                                        *)
(***************************************************************************)
\* one platform's dict of create_reverse_mapping, as dict items
\* <<name.lower(), standard name>>; column 2 of MAPPING is web2, column 3 poly
ReverseItems(column) ==
  [i \in 1..Len(MAPPING) |-> <<lower(MAPPING[i][column]), MAPPING[i][1]>>]

REVERSE_MAPPING == [platform \in {"web2", "poly"} |->
                      ReverseItems(IF platform = "web2" THEN 2 ELSE 3)]

\* REVERSE_MAPPING.get(platform, {})
ReverseOf(reverse, platform) ==
  IF platform \in DOMAIN reverse THEN reverse[platform] ELSE <<>>

\* the first item, in iteration order, whose key contains the name or is
\* contained in it; None if there is none
FirstPartial(items, name_lower) ==
  FirstHit({i \in DictKeyPositions(items) :
              \/ Contains(items[i][1], name_lower)
              \/ Contains(name_lower, items[i][1])})

\* the exact lookup, then the partial one, then the trimmed name itself
StandardizeIn(items, name, name_lower, partial) ==
  IF \E i \in 1..Len(items) : items[i][1] = name_lower THEN DictGet(items, name_lower)
  ELSE IF partial # NoneNum THEN DictGet(items, items[partial][1])
  ELSE strip(name)

StandardizeWith(items, name, name_lower) ==
  StandardizeIn(items, name, name_lower, FirstPartial(items, name_lower))

standardize_name(name, platform) ==
  IF name = None \/ name = "" THEN None
  ELSE StandardizeWith(ReverseOf(REVERSE_MAPPING, platform), name, lower(name))

(***************************************************************************)
(* A resolver call: normalize_team_for_matching(name),                     *)
(* fuzzy_match_team(name, threshold) or                                    *)
(* fuzzy_match_soccer_team(name, threshold).                               *)
(***************************************************************************)
Call(fn, name, threshold) == [fn |-> fn, name |-> name, threshold |-> threshold]

\* the keys and the values of the strict dictionary
StrictNames == DOMAIN SOCCER_TEAM_MAPPING \cup Range(SOCCER_TEAM_MAPPING)

\* further provider names given to normalize_team_for_matching
NormalizeNames ==
  { "ATM Atletico Madrid", "BAR1 Barcelona", "Arsenal FC", "  Wolves ", "Pafos FC",
    "Real Betis CF", "AFC Bournemouth", "Qarabag", "US Team", "FC", " afc ", "AB FC" }

\* names without an exact hit in the NBA alias table, a padded exact name,
\* the empty name and a whitespace-only name
NbaCallNames ==
  { "Philade", "Mia", "Los Angeles", "Lakerz", "avs", "la cl", "lace", "e Hornets",
    "Boston Celtic", "Seattle SuperSonics", " LAKERS ", "", "  " }

\* the same for the soccer tables
SoccerCallNames ==
  { "Atlanta Haw", "Mia", "nd Hove Albion", "Laio", "Che", "manchester", "Ham United",
    "Arsena", "Pafos", "Olympiacos", " arsenal fc ", "", "  " }

\* the canonical team names of NBA_TEAM_ALIASES and the standard names of
\* MAPPING
CanonicalNames ==
  {NBA_TEAM_ALIASES[t][1] : t \in 1..Len(NBA_TEAM_ALIASES)}
    \cup {MAPPING[i][1] : i \in 1..Len(MAPPING)}

\* the thresholds of the explored calls: the default and values next to the
\* best scores of the names above
Thresholds == {DefaultThreshold, 76, 90, 91}

ResolveCalls ==
  {Call("normalize_team_for_matching", n, 0) : n \in StrictNames \cup NormalizeNames}
    \cup {Call("fuzzy_match_soccer_team", n, DefaultThreshold) : n \in StrictNames}
    \cup {Call("fuzzy_match_soccer_team", n, t) : n \in SoccerCallNames, t \in Thresholds}
    \cup {Call("fuzzy_match_team", n, t) : n \in NbaCallNames, t \in Thresholds}
    \cup {[fn |-> "standardize_name", name |-> n, platform |-> p] :
            n \in CanonicalNames, p \in {"web2", "poly"}}

\* the call is pending
Pending(fn) == call.fn = fn /\ result = <<>>

NormalizeCall ==
  /\ Pending("normalize_team_for_matching")
  /\ result' = <<normalize_team_for_matching(call.name)>>
  /\ UNCHANGED <<call, matchVars, devigVars, storeVars>>

FuzzyTeamCall ==
  /\ Pending("fuzzy_match_team")
  /\ result' = <<fuzzy_match_team(call.name, call.threshold)>>
  /\ UNCHANGED <<call, matchVars, devigVars, storeVars>>

FuzzySoccerCall ==
  /\ Pending("fuzzy_match_soccer_team")
  /\ result' = <<fuzzy_match_soccer_team(call.name, call.threshold)>>
  /\ UNCHANGED <<call, matchVars, devigVars, storeVars>>

StandardizeCall ==
  /\ Pending("standardize_name")
  /\ result' = <<standardize_name(call.name, call.platform)>>
  /\ UNCHANGED <<call, matchVars, devigVars, storeVars>>

\* the variables of a pairing run when the run is not a pairing run
NoMatchRun ==
  /\ sport = None
  /\ web2_matches = <<>>
  /\ poly_matches = <<>>
  /\ merged = <<>>
  /\ matched_poly_indices = {}
  /\ w2_pos = 1
  /\ poly_pos = 1

ResolveInit ==
  /\ call \in ResolveCalls
  /\ result = <<>>
  /\ NoMatchRun
  /\ NoStoreRun
  /\ feed = NoFeed
  /\ devigged = <<>>

ResolveNext ==
  \/ NormalizeCall
  \/ FuzzyTeamCall
  \/ FuzzySoccerCall
  \/ StandardizeCall

SpecResolve == ResolveInit /\ [][ResolveNext]_vars

(***************************************************************************)
(* Probabilities.  The code computes with floats; here a probability is an *)
(* exact fraction <<numerator, denominator>> in lowest terms, and a        *)
(* rounded probability is an integer number of 0.0001.  Decimal odds are   *)
(* integers in units of 0.01.                                              *)
(***************************************************************************)
RECURSIVE Gcd(_, _)
Gcd(a, b) == IF b = 0 THEN a ELSE Gcd(b, a % b)

Reduced(n, d, g) == <<n \div g, d \div g>>

Frac(n, d) == Reduced(n, d, Gcd(n, d))

\* x + y and x / y
FracAdd(x, y) == Frac(x[1] * y[2] + y[1] * x[2], x[2] * y[2])

FracDiv(x, y) == Frac(x[1] * y[2], x[2] * y[1])

\* x > y
FracGreater(x, y) == x[1] * y[2] > y[1] * x[2]

\* 1 / price
ImpliedProb(price) == Frac(100, price)

RECURSIVE FracSum(_, _)
\* sum(o["prob"] for o in list), from element i
FracSum(probs, i) ==
  IF i > Len(probs) THEN <<0, 1>> ELSE FracAdd(probs[i], FracSum(probs, i + 1))

\* sum(...) / len(...)
Mean(probs) == FracDiv(FracSum(probs, 1), <<Len(probs), 1>>)

\* round(x, 4), in units of 0.0001
Round4(x) == RoundHalfEven(x[1] * 10000, x[2])

(***************************************************************************)
(* fetch_nba_matches_web2 and fetch_soccer_matches_web2.  The response is  *)
(* a sequence of events [match_id, home_team, away_team, commence_time,    *)
(* bookmakers]; a bookmaker is [key, market, prices], the prices of its    *)
(* market in the order home, away or home, draw, away; a price the         *)
(* response does not carry is None.                                        *)
(***************************************************************************)
NBA_PREFERRED_BOOKMAKERS == {"draftkings", "fanduel", "betmgm", "pinnacle"}

SOCCER_PREFERRED_BOOKMAKERS == {"pinnacle", "bet365", "williamhill", "unibet", "betfair_ex_eu"}

\* if not all([match_id, home_team, away_team, commence_time]): continue
Complete(event) ==
  /\ event.match_id # None /\ event.match_id # ""
  /\ event.home_team # None /\ event.home_team # ""
  /\ event.away_team # None /\ event.away_team # ""
  /\ event.commence_time # None /\ event.commence_time # ""

\* the h2h market of a bookmaker is used if every price is there and > 1
ValidH2h(bookmaker) ==
  /\ bookmaker.market = "h2h"
  /\ \A k \in DOMAIN bookmaker.prices :
       /\ bookmaker.prices[k] # NoneNum
       /\ bookmaker.prices[k] # 0
       /\ bookmaker.prices[k] > 100

\* home_odds_list (and away_odds_list, draw_odds_list): one entry per used bookmaker
OddsList(event) == SelectSeq(event.bookmakers, ValidH2h)

\* [o for o in home_odds_list if o["key"] in PREFERRED_BOOKMAKERS]
Preferred(list, preferred) == SelectSeq(list, LAMBDA o : o.key \in preferred)

\* every entry is averaged, preferred or not
AveragedAll(list, preferred) == list

\* the entries that are averaged: the preferred ones if there is any
Averaged(list, preferred) == IF preferred # <<>> THEN preferred ELSE list

\* avg_home, avg_away (and avg_draw) as a sequence over the outcomes
Averages(used, outcomes) ==
  [k \in 1..outcomes |-> Mean([i \in 1..Len(used) |-> ImpliedProb(used[i].prices[k])])]

\* devigged = avg / total_prob, rounded to 4 places, for every outcome
Devigged(avgs, total_prob) ==
  [k \in DOMAIN avgs |-> Round4(FracDiv(avgs[k], total_prob))]

\* the rounded de-vigged probabilities of one event and its best_bk
EventOdds(used, outcomes) ==
  [odds |-> Devigged(Averages(used, outcomes), FracSum(Averages(used, outcomes), 1)),
   bookmaker |-> used[1].key]

\* the events that yield a match
Yielding(events) ==
  SelectSeq(events, LAMBDA e : Complete(e) /\ OddsList(e) # <<>>)

NbaMatch(event, o) ==
  [match_id |-> event.match_id, home_team |-> event.home_team,
   away_team |-> event.away_team,
   home_odds |-> o.odds[1], away_odds |-> o.odds[2], bookmaker |-> o.bookmaker]

SoccerMatch(event, o) ==
  [match_id |-> event.match_id, home_team |-> event.home_team,
   away_team |-> event.away_team,
   home_odds |-> o.odds[1], draw_odds |-> o.odds[2], away_odds |-> o.odds[3],
   bookmaker |-> o.bookmaker]

\* matches, for the events that yield one
NbaMatches(yielding) ==
  [i \in 1..Len(yielding) |->
     NbaMatch(yielding[i],
              EventOdds(Averaged(OddsList(yielding[i]),
                                 Preferred(OddsList(yielding[i]), NBA_PREFERRED_BOOKMAKERS)),
                        2))]

SoccerMatches(yielding) ==
  [i \in 1..Len(yielding) |->
     SoccerMatch(yielding[i],
                 EventOdds(Averaged(OddsList(yielding[i]),
                                    Preferred(OddsList(yielding[i]), SOCCER_PREFERRED_BOOKMAKERS)),
                           3))]

(***************************************************************************)
(* process_web2_data.  The response is a sequence of events [bookmakers];  *)
(* a bookmaker is [key, market, outcomes], an outcome [name, price].       *)
(***************************************************************************)
PREFERRED_BOOKMAKERS == {"draftkings", "fanduel", "betmgm", "pinnacle",
                         "williamhill", "caesars", "pointsbet", "betrivers"}

RECURSIVE Flatten(_, _)
Flatten(seqs, i) == IF i > Len(seqs) THEN <<>> ELSE seqs[i] \o Flatten(seqs, i + 1)

\* the outcomes of the outrights market of one bookmaker, with its key
OutrightsOf(bookmaker) ==
  IF bookmaker.market = "outrights"
  THEN [k \in 1..Len(bookmaker.outcomes) |->
          [name |-> bookmaker.outcomes[k].name, price |-> bookmaker.outcomes[k].price,
           key |-> bookmaker.key]]
  ELSE <<>>

\* every outrights outcome of the response in the order of the three loops
AllOutcomes(data) ==
  Flatten([e \in 1..Len(data) |->
             Flatten([b \in 1..Len(data[e].bookmakers) |-> OutrightsOf(data[e].bookmakers[b])], 1)], 1)

\* if team and odds and odds > 1
Priced(o) ==
  /\ o.name # None /\ o.name # ""
  /\ o.price # NoneNum /\ o.price # 0
  /\ o.price > 100

\* an outcome with its standard name and implied probability
Standardized(o) ==
  [team |-> standardize_name(o.name, "web2"), prob |-> ImpliedProb(o.price), key |-> o.key]

\* the entries with a standard name, whatever their implied probability
CollectedAbove60(priced) ==
  SelectSeq([k \in 1..Len(priced) |-> Standardized(priced[k])],
            LAMBDA c : c.team # None /\ c.team # "")

\* the entries with a standard name and an implied probability up to 0.90
CollectedUpTo90(priced) ==
  SelectSeq([k \in 1..Len(priced) |-> Standardized(priced[k])],
            LAMBDA c : c.team # None /\ c.team # "" /\ ~FracGreater(c.prob, <<90, 100>>))

\* the entries appended to team_odds_collection, in order: the standard name
\* is not empty and the implied probability is not above 0.60
Collected(priced) ==
  SelectSeq([k \in 1..Len(priced) |-> Standardized(priced[k])],
            LAMBDA c : c.team # None /\ c.team # "" /\ ~FracGreater(c.prob, <<60, 100>>))

\* team_odds_collection[team]
OddsListOf(collected, team) == SelectSeq(collected, LAMBDA c : c.team = team)

\* abs(x["prob"] - avg_prob)
FracAbsDiff(a, b) ==
  IF FracGreater(a, b) THEN FracAdd(a, <<-b[1], b[2]>>) ELSE FracAdd(b, <<-a[1], a[2]>>)

\* the keys min(list, key=lambda x: abs(x["prob"] - avg_prob)) can return: the
\* code takes the first entry whose float distance is least, and entries at
\* the same exact distance (two entries are always at the same distance from
\* their mean) are told apart by the rounding of the float subtraction only
NearestKeys(list, avg_prob) ==
  {list[i].key : i \in {i \in 1..Len(list) :
                          \A j \in 1..Len(list) :
                            ~FracGreater(FracAbsDiff(list[i].prob, avg_prob),
                                         FracAbsDiff(list[j].prob, avg_prob))}}

\* avg_prob of the entries that are averaged
AvgProb(used) == Mean([i \in 1..Len(used) |-> used[i].prob])

\* team_data before the de-vig: the raw average and the possible sources
RawTeam(used) == [odds |-> AvgProb(used), nearest |-> NearestKeys(used, AvgProb(used))]

RawTeamData(collected) ==
  [team \in {collected[k].team : k \in 1..Len(collected)} |->
     RawTeam(Averaged(OddsListOf(collected, team),
                      Preferred(OddsListOf(collected, team), PREFERRED_BOOKMAKERS)))]

RECURSIVE FracSumOver(_, _)
\* sum(t["odds"] for t in team_data.values())
FracSumOver(team_data, teams) ==
  IF teams = {} THEN <<0, 1>>
  ELSE FracAdd(team_data[CHOOSE t \in teams : TRUE].odds,
               FracSumOver(team_data, teams \ {CHOOSE t \in teams : TRUE}))

\* the de-vig loop over team_data, for one choice of the sources
DevigTeams(team_data, total_implied_prob, best) ==
  [team \in DOMAIN team_data |->
     [odds |-> Round4(FracDiv(team_data[team].odds, total_implied_prob)),
      bookmaker_key |-> best[team]]]

\* the choices of a source per team
Sources(raw) ==
  {best \in [DOMAIN raw -> UNION {raw[t].nearest : t \in DOMAIN raw}] :
     \A t \in DOMAIN raw : best[t] \in raw[t].nearest}

TeamData(raw) == {DevigTeams(raw, FracSumOver(raw, DOMAIN raw), best) : best \in Sources(raw)}

\* the team maps process_web2_data(data) can return; if not data: return {}
process_web2_data(data) ==
  IF data = <<>> THEN {<<>>}
  ELSE TeamData(RawTeamData(Collected(SelectSeq(AllOutcomes(data), Priced))))

(***************************************************************************)
(* The explored bookmaker responses.  Prices are decimal odds in units of  *)
(* 0.01; probabilities are exact fractions, rounded ones are in units of   *)
(* 0.0001.                                                                 *)
(***************************************************************************)
MaxBooks == 2
MaxEvents == 2

H2h(key, prices) == [key |-> key, market |-> "h2h", prices |-> prices]

NbaBookmakers ==
  { H2h("pinnacle", <<200, 200>>),
    H2h("draftkings", <<150, 250>>),
    H2h("betonlineag", <<120, 400>>),
    H2h("betonlineag", <<300, 150>>),
    H2h("fanduel", <<100, 500>>),
    H2h("betmgm", <<250, NoneNum>>),
    [key |-> "pinnacle", market |-> "spreads", prices |-> <<200, 200>>] }

SoccerBookmakers ==
  { H2h("pinnacle", <<300, 300, 300>>),
    H2h("bet365", <<200, 400, 400>>),
    H2h("betonlineag", <<150, 300, 500>>),
    H2h("betonlineag", <<250, 300, 250>>),
    H2h("unibet", <<200, 300, 100>>),
    H2h("williamhill", <<250, NoneNum, 300>>),
    [key |-> "pinnacle", market |-> "totals", prices |-> <<200, 200, 200>>] }

Event(match_id, bookmakers) ==
  [match_id |-> match_id, home_team |-> "Home", away_team |-> "Away",
   commence_time |-> "2026-01-01T00:00:00Z", bookmakers |-> bookmakers]

\* the first event of a response: every list of up to MaxBooks bookmakers
FirstEvents(bookmakers) == {Event("e1", b) : b \in SeqsUpTo(bookmakers, MaxBooks)}

\* the further events of a response: one of a preferred and one of another
\* bookmaker, one without an id and one without a bookmaker
FurtherEvents(preferred, other) ==
  {Event("e2", <<preferred>>), Event("e2", <<other>>), Event(None, <<preferred>>),
   Event("e2", <<>>)}

Outrights(key, outcomes) == [key |-> key, market |-> "outrights", outcomes |-> outcomes]

Outcome(name, price) == [name |-> name, price |-> price]

OutrightsBookmakers ==
  { Outrights("pinnacle", <<Outcome("Boston Celtics", 300), Outcome("Denver Nuggets", 300),
                            Outcome("Los Angeles Lakers", 300)>>),
    Outrights("draftkings", <<Outcome("Boston Celtics", 200), Outcome("Denver Nuggets", 400),
                              Outcome("Los Angeles Lakers", 500)>>),
    Outrights("betonlineag", <<Outcome("Boston Celtics", 150), Outcome("Denver Nuggets", 250),
                               Outcome("Seattle SuperSonics", 500),
                               Outcome("Milwaukee Bucks", 120)>>),
    Outrights("betonlineag", <<Outcome("boston celtics", 400), Outcome("Lakers", 250),
                               Outcome("", 300)>>),
    Outrights("fanduel", <<Outcome("Denver Nuggets", 100), Outcome(None, 300),
                           Outcome("Los Angeles Lakers", NoneNum),
                           Outcome("Miami Heat", 120)>>),
    [key |-> "pinnacle", market |-> "h2h",
     outcomes |-> <<Outcome("Boston Celtics", 200), Outcome("Denver Nuggets", 200)>>] }

OutrightsFirstEvents == {[bookmakers |-> b] : b \in SeqsUpTo(OutrightsBookmakers, MaxBooks)}

OutrightsFurtherEvents ==
  { [bookmakers |-> <<Outrights("betmgm", <<Outcome("Boston Celtics", 250),
                                            Outcome("Miami Heat", 500)>>)>>],
    [bookmakers |-> <<>>] }

\* the responses of up to MaxEvents events: no event, or a first event and
\* further ones
Responses(first, further) ==
  {<<>>} \cup {<<e>> \o f : e \in first, f \in SeqsUpTo(further, MaxEvents - 1)}

Feed(fn, data) == [fn |-> fn, data |-> data]

Feeds ==
  {Feed("fetch_nba_matches_web2", d) :
     d \in Responses(FirstEvents(NbaBookmakers),
                     FurtherEvents(H2h("fanduel", <<150, 250>>), H2h("betonlineag", <<300, 150>>)))}
    \cup {Feed("fetch_soccer_matches_web2", d) :
            d \in Responses(FirstEvents(SoccerBookmakers),
                            FurtherEvents(H2h("bet365", <<250, 300, 250>>),
                                          H2h("betonlineag", <<300, 300, 300>>)))}
    \cup {Feed("process_web2_data", d) :
            d \in Responses(OutrightsFirstEvents, OutrightsFurtherEvents)}

\* the response is there and the function has not returned
Fetched(fn) == feed.fn = fn /\ devigged = <<>>

FetchNbaWeb2 ==
  /\ Fetched("fetch_nba_matches_web2")
  /\ devigged' = <<NbaMatches(Yielding(feed.data))>>
  /\ UNCHANGED <<feed, matchVars, resolveVars, storeVars>>

FetchSoccerWeb2 ==
  /\ Fetched("fetch_soccer_matches_web2")
  /\ devigged' = <<SoccerMatches(Yielding(feed.data))>>
  /\ UNCHANGED <<feed, matchVars, resolveVars, storeVars>>

ProcessWeb2Data ==
  /\ Fetched("process_web2_data")
  /\ \E team_data \in process_web2_data(feed.data) : devigged' = <<team_data>>
  /\ UNCHANGED <<feed, matchVars, resolveVars, storeVars>>

DevigInit ==
  /\ feed \in Feeds
  /\ devigged = <<>>
  /\ NoMatchRun
  /\ NoStoreRun
  /\ call = NoCall
  /\ result = <<>>

DevigNext ==
  \/ FetchNbaWeb2
  \/ FetchSoccerWeb2
  \/ ProcessWeb2Data

SpecDevig == DevigInit /\ [][DevigNext]_vars

(***************************************************************************)
(* The analysis job: calculate_ev, the EV of process_championship and the  *)
(* gate of generate_ai_report.  Probabilities and prices are integers in   *)
(* units of 0.01, an EV is an exact fraction.                              *)
(***************************************************************************)
\* the truth value of a number or None
Truthy(x) == x # NoneNum /\ x # 0

\* x or 0
OrZero(x) == IF Truthy(x) THEN x ELSE 0

\* (home_odds - poly_home) / poly_home
SideEv(odds, poly) == Frac(odds - poly, poly)

\* the list evs of calculate_ev
Evs(home_odds, away_odds, poly_home, poly_away) ==
  (IF Truthy(home_odds) /\ Truthy(poly_home) /\ poly_home > 0
   THEN <<SideEv(home_odds, poly_home)>> ELSE <<>>)
    \o (IF Truthy(away_odds) /\ Truthy(poly_away) /\ poly_away > 0
        THEN <<SideEv(away_odds, poly_away)>> ELSE <<>>)

\* the least element of a list of fractions
MinEv(evs) == evs[CHOOSE i \in 1..Len(evs) : \A j \in 1..Len(evs) : ~FracGreater(evs[i], evs[j])]

\* max(evs)
MaxEv(evs) == evs[CHOOSE i \in 1..Len(evs) : \A j \in 1..Len(evs) : ~FracGreater(evs[j], evs[i])]

\* max(evs) if evs else 0
MaxOrZero(evs) == IF evs # <<>> THEN MaxEv(evs) ELSE <<0, 1>>

calculate_ev(home_odds, away_odds, poly_home, poly_away) ==
  MaxOrZero(Evs(home_odds, away_odds, poly_home, poly_away))

\* the ev of process_championship, web2_odds and poly_price after `or 0`
ChampionshipEv(web2_odds, poly_price) ==
  IF poly_price > 0 THEN Frac(web2_odds - poly_price, poly_price) ELSE <<0, 1>>

\* threshold = 0.05 if is_championship else 0.02
EvThreshold(is_championship) == IF is_championship THEN <<5, 100>> ELSE <<2, 100>>

\* a gate that applies the threshold also under force_analysis
GateIgnoresForce(ev, poly_price, threshold, force_analysis) ==
  poly_price > 0 /\ FracGreater(threshold, ev)

\* the gate skips a market at its threshold too
GateSkipsAtThreshold(ev, poly_price, threshold, force_analysis) ==
  ~force_analysis /\ poly_price > 0 /\ ~FracGreater(ev, threshold)

\* if not force_analysis and poly_price > 0 and ev < threshold: return None
GateSkips(ev, poly_price, threshold, force_analysis) ==
  ~force_analysis /\ poly_price > 0 /\ FracGreater(threshold, ev)

\* the returns of generate_ai_report: None without a client, None at the
\* gate, and after client.generate_analysis a report or None; llm_called
\* tells whether the function has reached client.generate_analysis
Report(value, llm_called) == [value |-> value, llm_called |-> llm_called]

generate_ai_report(ev, poly_price, is_championship, force_analysis, available) ==
  IF ~available THEN {Report(None, FALSE)}
  ELSE IF GateSkips(ev, poly_price, EvThreshold(is_championship), force_analysis)
  THEN {Report(None, FALSE)}
  ELSE {Report("report", TRUE), Report(None, TRUE)}

(***************************************************************************)
(* The explored calls of the analysis job.                                 *)
(***************************************************************************)
\* de-vigged probabilities and market prices of a row; None is a missing one
RowOdds == {NoneNum, 0, 40, 60}
RowPrices == {NoneNum, 0, 50}

\* the EVs of process_championship rows stay away from the threshold, where
\* the rounding of the float division decides the comparison
ChampionshipOdds == {NoneNum, 40, 44, 60}

\* EVs given to generate_ai_report: below, at and above the two thresholds
ReportEvs == {<<-1, 5>>, <<0, 1>>, <<19, 1000>>, <<2, 100>>, <<3, 100>>, <<49, 1000>>,
              <<5, 100>>, <<51, 1000>>}

AnalysisCalls ==
  {[fn |-> "calculate_ev", home_odds |-> ho, away_odds |-> ao, poly_home |-> ph,
    poly_away |-> pa] : ho \in RowOdds, ao \in RowOdds, ph \in RowPrices, pa \in RowPrices}
    \cup {[fn |-> "process_match", home_odds |-> ho, away_odds |-> ao, poly_home |-> ph,
           poly_away |-> pa, available |-> TRUE] :
            ho \in RowOdds, ao \in RowOdds, ph \in RowPrices, pa \in RowPrices}
    \cup {[fn |-> "process_championship", web2_odds |-> w, polymarket_price |-> p,
           available |-> a] : w \in ChampionshipOdds, p \in {NoneNum, 0, 40}, a \in BOOLEAN}
    \cup {[fn |-> "generate_ai_report", ev |-> ev, polymarket_price |-> p,
           is_championship |-> c, force_analysis |-> f, available |-> a] :
            ev \in ReportEvs, p \in {0, 47}, c \in BOOLEAN, f \in BOOLEAN, a \in BOOLEAN}

CalculateEvCall ==
  /\ Pending("calculate_ev")
  /\ result' = <<calculate_ev(call.home_odds, call.away_odds, call.poly_home, call.poly_away)>>
  /\ UNCHANGED <<call, matchVars, devigVars, storeVars>>

\* process_match: the four values `or 0`, the EV, and the report with
\* force_analysis=True; polymarket_price is poly_home * 100
ProcessMatch ==
  /\ Pending("process_match")
  /\ \E ev \in {calculate_ev(OrZero(call.home_odds), OrZero(call.away_odds),
                             OrZero(call.poly_home), OrZero(call.poly_away))} :
       \E report \in generate_ai_report(ev, OrZero(call.poly_home) * 100, FALSE, TRUE,
                                        call.available) :
         result' = <<[ev |-> ev, report |-> report]>>
  /\ UNCHANGED <<call, matchVars, devigVars, storeVars>>

\* process_championship: the EV and the report with is_championship=True
ProcessChampionship ==
  /\ Pending("process_championship")
  /\ \E ev \in {ChampionshipEv(OrZero(call.web2_odds), OrZero(call.polymarket_price))} :
       \E report \in generate_ai_report(ev, OrZero(call.polymarket_price) * 100, TRUE, FALSE,
                                        call.available) :
         result' = <<[ev |-> ev, report |-> report]>>
  /\ UNCHANGED <<call, matchVars, devigVars, storeVars>>

GenerateAiReport ==
  /\ Pending("generate_ai_report")
  /\ \E report \in generate_ai_report(call.ev, call.polymarket_price, call.is_championship,
                                      call.force_analysis, call.available) :
       result' = <<report>>
  /\ UNCHANGED <<call, matchVars, devigVars, storeVars>>

AnalysisInit ==
  /\ call \in AnalysisCalls
  /\ result = <<>>
  /\ NoMatchRun
  /\ NoStoreRun
  /\ feed = NoFeed
  /\ devigged = <<>>

AnalysisNext ==
  \/ CalculateEvCall
  \/ ProcessMatch
  \/ ProcessChampionship
  \/ GenerateAiReport

SpecAnalysis == AnalysisInit /\ [][AnalysisNext]_vars


(***************************************************************************)
(* The database: the odds history (scraper.py), the tables daily_matches   *)
(* and market_odds as the scraper rewrites them, and the analysis job      *)
(* (daily_analysis_job.py) that reads and updates them.                    *)
(*                                                                         *)
(* Odds and prices are in units of 0.001, liquidity is in units of 0.5     *)
(* USDC, an EV is the exact ratio <<num, den>> and <<0, 0>> when it is     *)
(* None.  Times are in hours.  The bookmaker and url columns, which no     *)
(* query reads, are left out of the rows.                                  *)
(***************************************************************************)
Abs(x) == IF x < 0 THEN -x ELSE x

\* ev=None
NoneEv == <<0, 0>>

\* threshold=0.005, in units of 0.001
Threshold == 5

\* the threshold 1.0 of the liquidity fields, in units of 0.5
LiquidityThreshold == 2

\* _check_value_changed with > in the place of >=
CheckValueChangedAbove(new_val, old_val, threshold) ==
  IF new_val # NoneNum /\ old_val # NoneNum
  THEN Abs(new_val - old_val) > threshold
  ELSE new_val # NoneNum \/ old_val # NoneNum

\* _check_value_changed(new_val, old_val, threshold)
check_value_changed(new_val, old_val, threshold) ==
  IF new_val # NoneNum /\ old_val # NoneNum
  THEN Abs(new_val - old_val) >= threshold
  ELSE new_val # NoneNum \/ old_val # NoneNum

\* _check_value_changed(ev, last_ev, threshold) on the exact ratios:
\* abs(n1/d1 - n2/d2) >= threshold/1000
check_ev_changed(new_ev, old_ev, threshold) ==
  IF new_ev # NoneEv /\ old_ev # NoneEv
  THEN 1000 * Abs(new_ev[1] * old_ev[2] - old_ev[1] * new_ev[2])
         >= threshold * new_ev[2] * old_ev[2]
  ELSE new_ev # NoneEv \/ old_ev # NoneEv

\* the thresholds of the tracked fields, in the order of the SELECT:
\* web2_odds, polymarket_price, liquidity_usdc
ChampionshipThresholds == <<Threshold, Threshold, LiquidityThreshold>>

\* web2_home_odds, web2_away_odds, poly_home_price, poly_away_price,
\* liquidity_home, liquidity_away, web2_draw_odds, poly_draw_price,
\* liquidity_draw
DailyThresholds ==
  <<Threshold, Threshold, Threshold, Threshold, LiquidityThreshold,
    LiquidityThreshold, Threshold, Threshold, LiquidityThreshold>>

\* a row of odds_history: values holds the tracked fields of its event type
HistoryRow(event_type, event_id, sport_type, values, ev, recorded_at) ==
  [event_type |-> event_type, event_id |-> event_id, sport_type |-> sport_type,
   values |-> values, ev |-> ev, recorded_at |-> recorded_at]

\* CURRENT_TIMESTAMP of a transaction: later than every stored row
NextRecordedAt(history) ==
  IF history = <<>> THEN 1
  ELSE 1 + (CHOOSE t \in {history[i].recorded_at : i \in DOMAIN history} :
              \A i \in DOMAIN history : history[i].recorded_at <= t)

\* WHERE event_type = ... AND event_id = %s ORDER BY recorded_at DESC LIMIT 1:
\* the rows the query can return (one of the rows of the latest transaction)
LatestRows(history, event_type, event_id) ==
  {history[i] : i \in {k \in DOMAIN history :
     /\ history[k].event_type = event_type
     /\ history[k].event_id = event_id
     /\ \A j \in DOMAIN history :
          (history[j].event_type = event_type /\ history[j].event_id = event_id)
            => history[j].recorded_at <= history[k].recorded_at}}

\* any([...]) of the changes of the tracked fields against the row last
AnyChanged(row, last, thresholds) ==
  \/ \E i \in DOMAIN thresholds :
       check_value_changed(row.values[i], last.values[i], thresholds[i])
  \/ check_ev_changed(row.ev, last.ev, Threshold)

\* the body shared by save_odds_history_championship and
\* save_odds_history_daily: every [history, returned] the call can end with
SaveOddsHistory(history, row, thresholds) ==
  IF LatestRows(history, row.event_type, row.event_id) = {}
  THEN {[history |-> Append(history, row), returned |-> TRUE]}
  ELSE {IF AnyChanged(row, last, thresholds)
        THEN [history |-> Append(history, row), returned |-> TRUE]
        ELSE [history |-> history, returned |-> FALSE] :
          last \in LatestRows(history, row.event_type, row.event_id)}

save_odds_history_championship(history, event_id, sport_type, values, ev, at) ==
  SaveOddsHistory(history,
                  HistoryRow("championship", event_id, sport_type, values, ev, at),
                  ChampionshipThresholds)

save_odds_history_daily(history, match_id, sport_type, values, ev, at) ==
  SaveOddsHistory(history,
                  HistoryRow("daily", match_id, sport_type, values, ev, at),
                  DailyThresholds)

\* the longest odds history explored
MaxHistory == 3

\* ev as save_daily_matches computes it for the home side
HomeEv(home_odds, poly_home_price) ==
  IF Truthy(home_odds) /\ Truthy(poly_home_price) /\ poly_home_price > 0
  THEN Frac(home_odds - poly_home_price, poly_home_price)
  ELSE NoneEv

\* the calls of save_odds_history_daily: a two-way match whose fields move
\* by less than, exactly and more than their thresholds, and a three-way one
DailyHistoryValues ==
  {<<500, 520, 480, 510, 200, 300, NoneNum, NoneNum, NoneNum>>,
   <<501, 520, 480, 510, 200, 300, NoneNum, NoneNum, NoneNum>>,
   <<500, 524, 480, 510, 200, 300, NoneNum, NoneNum, NoneNum>>,
   <<500, 525, 480, 510, 200, 300, NoneNum, NoneNum, NoneNum>>,
   <<500, 520, 480, 510, 201, 300, NoneNum, NoneNum, NoneNum>>,
   <<500, 520, 480, 510, 200, 302, NoneNum, NoneNum, NoneNum>>,
   <<500, 520, NoneNum, NoneNum, NoneNum, NoneNum, NoneNum, NoneNum, NoneNum>>,
   <<500, 520, 480, 510, 200, 300, 250, 240, 100>>}

DailyHistoryCalls ==
  {[fn |-> "save_odds_history_daily", event_id |-> "m1", sport_type |-> "nba",
    values |-> v, ev |-> HomeEv(v[1], v[3])] : v \in DailyHistoryValues}

\* the calls of save_odds_history_championship, with the ev of
\* save_to_database (0 when there is no price)
ChampionshipHistoryValues ==
  {<<150, 140, 400>>, <<150, 144, 400>>, <<155, 140, 400>>, <<150, 140, 401>>,
   <<150, 140, 402>>, <<150, NoneNum, NoneNum>>}

ChampionshipEvOf(web2_odds, poly_price) ==
  IF Truthy(web2_odds) /\ Truthy(poly_price) /\ poly_price > 0
  THEN Frac(web2_odds - poly_price, poly_price)
  ELSE <<0, 1>>

ChampionshipHistoryCalls ==
  {[fn |-> "save_odds_history_championship", event_id |-> "England",
    sport_type |-> "world_cup", values |-> v, ev |-> ChampionshipEvOf(v[1], v[2])] :
     v \in ChampionshipHistoryValues}

\* one call of save_odds_history_daily in a transaction of its own
SaveOddsHistoryDaily ==
  /\ Len(odds_history) < MaxHistory
  /\ \E c \in DailyHistoryCalls :
       \E out \in save_odds_history_daily(odds_history, c.event_id, c.sport_type,
                    c.values, c.ev, NextRecordedAt(odds_history)) :
         /\ call' = c
         /\ result' = <<out.returned>>
         /\ odds_history' = out.history
  /\ UNCHANGED <<now, daily_matches, market_odds, job, matchVars, devigVars>>

\* one call of save_odds_history_championship in a transaction of its own
SaveOddsHistoryChampionship ==
  /\ Len(odds_history) < MaxHistory
  /\ \E c \in ChampionshipHistoryCalls :
       \E out \in save_odds_history_championship(odds_history, c.event_id,
                    c.sport_type, c.values, c.ev, NextRecordedAt(odds_history)) :
         /\ call' = c
         /\ result' = <<out.returned>>
         /\ odds_history' = out.history
  /\ UNCHANGED <<now, daily_matches, market_odds, job, matchVars, devigVars>>

HistoryInit ==
  /\ call = NoCall
  /\ result = <<>>
  /\ NoMatchRun
  /\ NoStoreRun
  /\ feed = NoFeed
  /\ devigged = <<>>

HistoryNext ==
  \/ SaveOddsHistoryDaily
  \/ SaveOddsHistoryChampionship

SpecHistory == HistoryInit /\ [][HistoryNext]_vars

(***************************************************************************)
(* The scraper's writes of daily_matches and market_odds.                  *)
(***************************************************************************)
\* a match as the pairing hands it to save_daily_matches and
\* save_soccer_matches; a missing key or value is NoneNum
DailyMatch(match_id, home_team, away_team, commence_time, odds, prices, liquidity) ==
  [match_id |-> match_id, home_team |-> home_team, away_team |-> away_team,
   commence_time |-> commence_time,
   home_odds |-> odds[1], away_odds |-> odds[2], draw_odds |-> odds[3],
   poly_home_price |-> prices[1], poly_away_price |-> prices[2],
   poly_draw_price |-> prices[3],
   liquidity_home |-> liquidity[1], liquidity_away |-> liquidity[2],
   liquidity_draw |-> liquidity[3]]

\* the row INSERT INTO daily_matches writes for m; the columns the INSERT
\* does not name (ai_prediction, ai_generated_at) take their default NULL
DailyRow(sport_type, m, ai_analysis, analysis_timestamp) ==
  [sport_type |-> sport_type, match_id |-> m.match_id, home_team |-> m.home_team,
   away_team |-> m.away_team, commence_time |-> m.commence_time,
   web2_home_odds |-> m.home_odds, web2_away_odds |-> m.away_odds,
   web2_draw_odds |-> m.draw_odds,
   poly_home_price |-> m.poly_home_price, poly_away_price |-> m.poly_away_price,
   poly_draw_price |-> m.poly_draw_price,
   liquidity_home |-> m.liquidity_home, liquidity_away |-> m.liquidity_away,
   liquidity_draw |-> m.liquidity_draw,
   ai_prediction |-> None, ai_generated_at |-> NoneNum,
   ai_analysis |-> ai_analysis, analysis_timestamp |-> analysis_timestamp]

\* the tracked fields of m in the order of save_odds_history_daily
DailyValues(m) ==
  <<m.home_odds, m.away_odds, m.poly_home_price, m.poly_away_price,
    m.liquidity_home, m.liquidity_away, m.draw_odds, m.poly_draw_price,
    m.liquidity_draw>>

\* the loop of save_odds_history_daily calls over the batch, from position i:
\* every history the loop can end with.  save_daily_matches passes the home
\* EV, save_soccer_matches passes none.
RECURSIVE DailyHistoryAfter(_, _, _, _, _)
DailyHistoryAfter(histories, matches, sport_type, i, at) ==
  IF i > Len(matches) THEN histories
  ELSE DailyHistoryAfter(
         UNION {{out.history :
                   out \in save_odds_history_daily(h, matches[i].match_id, sport_type,
                             DailyValues(matches[i]),
                             IF sport_type = "nba"
                             THEN HomeEv(matches[i].home_odds, matches[i].poly_home_price)
                             ELSE NoneEv,
                             at)} : h \in histories},
         matches, sport_type, i + 1, at)

\* existing_reports.get(match_id, {}).get(key): the report of the NBA row
StoredNbaReport(table, match_id, key) ==
  IF \E r \in table : r.sport_type = "nba" /\ r.match_id = match_id /\ r.ai_analysis # None
  THEN (CHOOSE r \in table : r.sport_type = "nba" /\ r.match_id = match_id)[key]
  ELSE IF key = "ai_analysis" THEN None ELSE NoneNum

\* save_daily_matches: the table after DELETE ... WHERE sport_type = 'nba' and
\* the inserts of the batch
save_daily_matches(table, matches) ==
  IF matches = <<>> THEN table
  ELSE {r \in table : r.sport_type # "nba"}
         \cup {DailyRow("nba", matches[i],
                        StoredNbaReport(table, matches[i].match_id, "ai_analysis"),
                        StoredNbaReport(table, matches[i].match_id, "analysis_timestamp")) :
                 i \in DOMAIN matches}

\* save_soccer_matches: a match without a Polymarket price takes the prices
\* and the liquidity of the stored row of its match_id
RestoredPoly(table, sport_type, m) ==
  IF ~Truthy(m.poly_home_price)
     /\ \E r \in table : /\ r.sport_type = sport_type /\ r.match_id = m.match_id
                         /\ r.poly_home_price # NoneNum
  THEN LET old == CHOOSE r \in table : r.sport_type = sport_type /\ r.match_id = m.match_id
       IN [m EXCEPT !.poly_home_price = old.poly_home_price,
                    !.poly_away_price = old.poly_away_price,
                    !.poly_draw_price = old.poly_draw_price,
                    !.liquidity_home = old.liquidity_home,
                    !.liquidity_away = old.liquidity_away,
                    !.liquidity_draw = old.liquidity_draw]
  ELSE m

\* the batch after the restore loop
RestoredMatches(table, sport_type, matches) ==
  [i \in DOMAIN matches |-> RestoredPoly(table, sport_type, matches[i])]

\* save_soccer_matches: the table after DELETE ... WHERE sport_type = %s and
\* the inserts, which name no ai_ column
save_soccer_matches(table, matches, sport_type) ==
  IF matches = <<>> THEN table
  ELSE {r \in table : r.sport_type # sport_type}
         \cup {DailyRow(sport_type, RestoredPoly(table, sport_type, matches[i]), None, NoneNum) :
                 i \in DOMAIN matches}

\* a record of all_data
MarketRecord(sport_type, team_name, web2_odds, polymarket_price, liquidity_usdc) ==
  [sport_type |-> sport_type, team_name |-> team_name, prop_type |-> "championship",
   web2_odds |-> web2_odds, polymarket_price |-> polymarket_price,
   liquidity_usdc |-> liquidity_usdc]

\* the row INSERT INTO market_odds writes for a record; ai_prediction and
\* ai_generated_at take their default NULL
MarketRow(record, ai_analysis, analysis_timestamp) ==
  [sport_type |-> record.sport_type, team_name |-> record.team_name,
   prop_type |-> record.prop_type, web2_odds |-> record.web2_odds,
   polymarket_price |-> record.polymarket_price,
   liquidity_usdc |-> record.liquidity_usdc,
   ai_prediction |-> None, ai_generated_at |-> NoneNum,
   ai_analysis |-> ai_analysis, analysis_timestamp |-> analysis_timestamp]

\* existing_reports: for each team_name with a report, the position of the
\* row whose report the dictionary keeps.  The SELECT has no ORDER BY, so the
\* last row of a team_name in fetchall() is any of its rows.
ExistingReports(market) ==
  {f \in [{market[i].team_name : i \in {k \in DOMAIN market : market[k].ai_analysis # None}}
            -> DOMAIN market] :
     \A t \in DOMAIN f : market[f[t]].team_name = t /\ market[f[t]].ai_analysis # None}

\* existing_reports.get(team_name, {}).get(key)
StoredReport(market, existing_reports, team_name, key) ==
  IF team_name \in DOMAIN existing_reports
  THEN market[existing_reports[team_name]][key]
  ELSE IF key = "ai_analysis" THEN None ELSE NoneNum

\* save_to_database: the table after TRUNCATE and the inserts of all_data
save_to_database(market, existing_reports, all_data) ==
  [i \in DOMAIN all_data |->
     MarketRow(all_data[i],
               StoredReport(market, existing_reports, all_data[i].team_name, "ai_analysis"),
               StoredReport(market, existing_reports, all_data[i].team_name,
                            "analysis_timestamp"))]

\* the loop of save_odds_history_championship calls of save_to_database
RECURSIVE ChampionshipHistoryAfter(_, _, _, _)
ChampionshipHistoryAfter(histories, all_data, i, at) ==
  IF i > Len(all_data) THEN histories
  ELSE ChampionshipHistoryAfter(
         UNION {{out.history :
                   out \in save_odds_history_championship(h, all_data[i].team_name,
                             all_data[i].sport_type,
                             <<all_data[i].web2_odds, all_data[i].polymarket_price,
                               all_data[i].liquidity_usdc>>,
                             ChampionshipEvOf(all_data[i].web2_odds,
                                              all_data[i].polymarket_price),
                             at)} : h \in histories},
         all_data, i + 1, at)

(***************************************************************************)
(* The analysis job.                                                       *)
(***************************************************************************)
\* ai_generated_at IS NULL OR ai_generated_at < NOW() - INTERVAL 'hours'
OlderThan(r, t, hours) == r.ai_generated_at = NoneNum \/ r.ai_generated_at < t - hours

\* the NEW branch of the WHERE clause
IsNew(r, t) ==
  /\ r.ai_prediction = None
  /\ \/ r.sport_type = "nba" /\ r.commence_time < t + 72
     \/ r.sport_type = "epl" /\ r.commence_time < t + 168
     \/ r.sport_type = "ucl"
     \/ r.sport_type \notin {"nba", "epl", "ucl"} /\ r.commence_time < t + 72

\* the URGENT REFRESH branch
IsUrgent(r, t) ==
  /\ r.commence_time < t + 24
  /\ r.ai_prediction # None
  /\ OlderThan(r, t, 1)

\* the STALE REFRESH branch
IsStale(r, t) ==
  /\ r.commence_time >= t + 24
  /\ r.ai_prediction # None
  /\ \/ r.sport_type = "nba" /\ OlderThan(r, t, 24) /\ r.commence_time < t + 72
     \/ r.sport_type = "epl" /\ OlderThan(r, t, 48) /\ r.commence_time < t + 168
     \/ r.sport_type = "ucl" /\ OlderThan(r, t, 72)
     \/ /\ r.sport_type \notin {"nba", "epl", "ucl"}
        /\ OlderThan(r, t, 24) /\ r.commence_time < t + 72

\* the WHERE clause of fetch_pending_matches at NOW() = t
IsPending(r, t) ==
  r.commence_time > t /\ (IsNew(r, t) \/ IsUrgent(r, t) \/ IsStale(r, t))

\* ORDER BY commence_time ASC
RECURSIVE ByCommenceTime(_)
ByCommenceTime(rows) ==
  IF rows = {} THEN <<>>
  ELSE LET first == CHOOSE r \in rows : \A q \in rows : r.commence_time <= q.commence_time
       IN <<first>> \o ByCommenceTime(rows \ {first})

fetch_pending_matches(table, t) == ByCommenceTime({r \in table : IsPending(r, t)})

\* WHERE ai_prediction IS NULL AND web2_odds IS NOT NULL AND polymarket_price
\* IS NOT NULL: the ids (positions) of the rows
PendingChampionships(market) ==
  {i \in DOMAIN market : /\ market[i].ai_prediction = None
                         /\ market[i].web2_odds # NoneNum
                         /\ market[i].polymarket_price # NoneNum}

\* the strings of the explored rows in the order of their comparison
SortedStrings == <<"Boston Celtics", "England", "nba", "ucl_winner", "world_cup">>

Rank(s) == CHOOSE i \in DOMAIN SortedStrings : SortedStrings[i] = s

\* ORDER BY sport_type, team_name
RECURSIVE BySportAndTeam(_, _)
BySportAndTeam(market, ids) ==
  IF ids = {} THEN <<>>
  ELSE LET first == CHOOSE i \in ids : \A j \in ids :
                      \/ Rank(market[i].sport_type) < Rank(market[j].sport_type)
                      \/ /\ market[i].sport_type = market[j].sport_type
                         /\ Rank(market[i].team_name) <= Rank(market[j].team_name)
       IN <<first>> \o BySportAndTeam(market, ids \ {first})

fetch_pending_championships(market) == BySportAndTeam(market, PendingChampionships(market))

\* league_from_sport_type: mapping.get(sport_type.lower(), "NBA")
league_from_sport_type(sport_type) ==
  CASE sport_type \in {"nba"} -> "NBA"
    [] sport_type \in {"epl", "soccer_epl"} -> "EPL"
    [] sport_type \in {"ucl", "soccer_uefa_champs_league"} -> "UCL"
    [] sport_type \in {"world_cup", "fifa"} -> "FIFA"
    [] OTHER -> "NBA"

\* what the LLM can answer for a row: nothing (generate_ai_report returns
\* None), or a report whose parsed predicted_winner is None (the output does
\* not have the expected lines), "Draw", or the home team or the team itself
NoReport == "no report"

LlmOutputs == {NoReport, None, "Draw", "Home"}

\* result["full_report_markdown"]: the text written for this title and league
ReportText(title, league) == <<title, league>>

\* the NBA safety net replaces a predicted draw by the side with the higher
\* bookmaker probability, else the higher market price, else the home team
FixedDraw(r) ==
  IF OrZero(r.web2_home_odds) > 0 \/ OrZero(r.web2_away_odds) > 0
  THEN (IF OrZero(r.web2_home_odds) > OrZero(r.web2_away_odds)
        THEN r.home_team ELSE r.away_team)
  ELSE IF OrZero(r.poly_home_price) > 0 \/ OrZero(r.poly_away_price) > 0
  THEN (IF OrZero(r.poly_home_price) > OrZero(r.poly_away_price)
        THEN r.home_team ELSE r.away_team)
  ELSE r.home_team

\* result.get("predicted_winner", "").lower(): the key is present, so a
\* predicted_winner of None reaches .lower() and raises AttributeError; the
\* call is made only when sport_type == "nba"
Raises(sport_type, predicted_winner) == sport_type = "nba" /\ predicted_winner = None

\* process_match on the row r when the LLM answers out: skipped (returns
\* False), raised, or generated (returns True) with the columns of the UPDATE
process_match(r, out) ==
  IF "report" \notin {rep.value : rep \in
        generate_ai_report(calculate_ev(OrZero(r.web2_home_odds), OrZero(r.web2_away_odds),
                                        OrZero(r.poly_home_price), OrZero(r.poly_away_price)),
                           OrZero(r.poly_home_price) * 100, FALSE, TRUE, TRUE)}
     \/ out = NoReport
  THEN [status |-> "skipped", predicted_winner |-> None, ai_prediction |-> None,
        ai_analysis |-> None]
  ELSE IF Raises(r.sport_type, IF out = "Home" THEN r.home_team ELSE out)
  THEN [status |-> "raised", predicted_winner |-> None, ai_prediction |-> None,
        ai_analysis |-> None]
  ELSE [status |-> "generated",
        predicted_winner |-> IF out = "Home" THEN r.home_team ELSE out,
        ai_prediction |-> IF out = "Home" THEN r.home_team
                          ELSE IF r.sport_type = "nba" /\ out = "Draw" THEN FixedDraw(r)
                          ELSE out,
        ai_analysis |-> ReportText(<<r.home_team, r.away_team>>,
                                   league_from_sport_type(r.sport_type))]

\* process_championship on the market row r when the LLM answers out; without
\* force_analysis the EV gate of generate_ai_report decides first
process_championship(r, out) ==
  IF "report" \notin {rep.value : rep \in
        generate_ai_report(ChampionshipEv(OrZero(r.web2_odds), OrZero(r.polymarket_price)),
                           OrZero(r.polymarket_price) * 100, TRUE, FALSE, TRUE)}
     \/ out = NoReport
  THEN [status |-> "skipped", predicted_winner |-> None, ai_prediction |-> None,
        ai_analysis |-> None]
  ELSE [status |-> "generated",
        predicted_winner |-> IF out = "Home" THEN r.team_name ELSE out,
        ai_prediction |-> IF out = "Home" THEN r.team_name ELSE out,
        ai_analysis |-> ReportText(<<r.team_name, "Championship Winner">>,
                                   league_from_sport_type(r.sport_type))]

\* the key of a row of daily_matches
KeyOf(r) == <<r.sport_type, r.match_id>>

\* UPDATE daily_matches SET ai_prediction, ai_analysis, ai_generated_at = NOW()
\* WHERE id = the row r
UpdatedMatch(table, r, done, t) ==
  (table \ {r}) \cup {[r EXCEPT !.ai_prediction = done.ai_prediction,
                                !.ai_analysis = done.ai_analysis,
                                !.ai_generated_at = t]}

\* UPDATE market_odds ... WHERE id = i
UpdatedMarket(market, i, done, t) ==
  [market EXCEPT ![i] = [@ EXCEPT !.ai_prediction = done.ai_prediction,
                                  !.ai_analysis = done.ai_analysis,
                                  !.ai_generated_at = t]]

\* what the job prints for a processed row: skipped, generated or raised,
\* and whether the report had a predicted_winner ("N/A" is printed without)
JobOutcome(done) == [status |-> done.status, parsed |-> done.predicted_winner # None]

\* Phase 1 of main from position i: the loop commits after every success and
\* ends at the first exception, which main re-raises after the rollback
RECURSIVE Phase1(_, _, _, _, _, _)
Phase1(table, matches, llm, i, outcomes, t) ==
  IF i > Len(matches)
  THEN [table |-> table, outcomes |-> outcomes, raised |-> FALSE]
  ELSE IF process_match(matches[i], llm[KeyOf(matches[i])]).status = "raised"
  THEN [table |-> table,
        outcomes |-> Append(outcomes,
                            JobOutcome(process_match(matches[i], llm[KeyOf(matches[i])]))),
        raised |-> TRUE]
  ELSE Phase1(IF process_match(matches[i], llm[KeyOf(matches[i])]).status = "generated"
              THEN UpdatedMatch(table, matches[i],
                                process_match(matches[i], llm[KeyOf(matches[i])]), t)
              ELSE table,
              matches, llm, i + 1,
              Append(outcomes, JobOutcome(process_match(matches[i], llm[KeyOf(matches[i])]))),
              t)

\* Phase 2 of main from position i
RECURSIVE Phase2(_, _, _, _, _, _)
Phase2(market, championships, llm, i, outcomes, t) ==
  IF i > Len(championships)
  THEN [market |-> market, outcomes |-> outcomes]
  ELSE Phase2(IF process_championship(market[championships[i]],
                                      llm[championships[i]]).status = "generated"
              THEN UpdatedMarket(market, championships[i],
                                 process_championship(market[championships[i]],
                                                      llm[championships[i]]), t)
              ELSE market,
              championships, llm, i + 1,
              Append(outcomes, JobOutcome(process_championship(market[championships[i]],
                                                               llm[championships[i]]))),
              t)

\* one run of main at NOW() = t with the LLM answers llm (daily matches) and
\* llm2 (championships): Phase 1, and Phase 2 unless Phase 1 raised
MainRun(table, market, llm, llm2, t) ==
  LET matches == fetch_pending_matches(table, t)
      p1 == Phase1(table, matches, llm, 1, <<>>, t)
      championships == fetch_pending_championships(market)
      p2 == Phase2(market, championships, llm2, 1, <<>>, t)
  IN IF p1.raised
     THEN [table |-> p1.table, market |-> market,
           job |-> [matches |-> Len(matches), outcomes |-> p1.outcomes,
                    championships |-> 0, champ_outcomes |-> <<>>, raised |-> TRUE]]
     ELSE [table |-> p1.table, market |-> p2.market,
           job |-> [matches |-> Len(matches), outcomes |-> p1.outcomes,
                    championships |-> Len(championships),
                    champ_outcomes |-> p2.outcomes, raised |-> FALSE]]

(***************************************************************************)
(* The explored runs of the scraper and of the job on one database.        *)
(***************************************************************************)
\* the last hour explored and the hours between two runs
MaxNow == 24

TickHours == 12

\* an NBA match 30 hours ahead and an EPL match 100 hours ahead
LakersCeltics ==
  DailyMatch("m1", "Los Angeles Lakers", "Boston Celtics", 30, <<500, 520, NoneNum>>,
             <<480, 510, NoneNum>>, <<200, 300, NoneNum>>)

ArsenalChelsea ==
  DailyMatch("e1", "Arsenal", "Chelsea", 100, <<450, 300, 250>>, <<440, 310, 240>>,
             <<100, 100, 100>>)

\* the same EPL match when the pairing found no market for it
ArsenalChelseaUnpaired ==
  DailyMatch("e1", "Arsenal", "Chelsea", 100, <<450, 300, 250>>,
             <<NoneNum, NoneNum, NoneNum>>, <<NoneNum, NoneNum, NoneNum>>)

NbaBatches == {<<LakersCeltics>>}

EplBatches == {<<ArsenalChelsea>>, <<ArsenalChelseaUnpaired>>}

\* merge_and_save_data's records: England as a World Cup candidate with
\* bookmaker odds, the team_name "England" of a Champions League market
\* (poly_only: no bookmaker odds; standardize_name's partial match turns the
\* extracted "a club from England" into "England"), and an NBA candidate
WorldCupEngland == MarketRecord("world_cup", "England", 150, 140, 400)

UclWinnerEngland == MarketRecord("ucl_winner", "England", NoneNum, 140, 400)

NbaCeltics == MarketRecord("nba", "Boston Celtics", 150, 140, 400)

AllDataBatches ==
  {<<WorldCupEngland>>,
   <<WorldCupEngland, UclWinnerEngland>>,
   <<NbaCeltics, WorldCupEngland>>}

\* the clock advances between two runs
Tick ==
  /\ now + TickHours <= MaxNow
  /\ now' = now + TickHours
  /\ UNCHANGED <<daily_matches, market_odds, odds_history, job, matchVars, resolveVars,
                 devigVars>>

\* one run of save_daily_matches
SaveDailyMatches ==
  /\ \E matches \in NbaBatches :
       /\ daily_matches' = save_daily_matches(daily_matches, matches)
       /\ odds_history' \in DailyHistoryAfter({odds_history}, matches, "nba", 1,
                                              NextRecordedAt(odds_history))
  /\ UNCHANGED <<now, market_odds, job, matchVars, resolveVars, devigVars>>

\* one run of save_soccer_matches for the EPL; the history rows carry the
\* restored prices
SaveSoccerMatches ==
  /\ \E matches \in EplBatches :
       /\ daily_matches' = save_soccer_matches(daily_matches, matches, "epl")
       /\ odds_history' \in
            DailyHistoryAfter({odds_history}, RestoredMatches(daily_matches, "epl", matches),
                              "epl", 1, NextRecordedAt(odds_history))
  /\ UNCHANGED <<now, market_odds, job, matchVars, resolveVars, devigVars>>

\* one run of save_to_database
SaveToDatabase ==
  /\ Len(odds_history) < MaxHistory
  /\ \E all_data \in AllDataBatches :
       /\ \E existing_reports \in ExistingReports(market_odds) :
            market_odds' = save_to_database(market_odds, existing_reports, all_data)
       /\ odds_history' \in ChampionshipHistoryAfter({odds_history}, all_data, 1,
                                                     NextRecordedAt(odds_history))
  /\ UNCHANGED <<now, daily_matches, job, matchVars, resolveVars, devigVars>>

\* the LLM answers of one run: one for every pending row
MatchAnswers(table, t) ==
  [{KeyOf(r) : r \in {q \in table : IsPending(q, t)}} -> LlmOutputs]

ChampionshipAnswers(market) == [PendingChampionships(market) -> {NoReport, "Home"}]

\* one run of main
Main ==
  /\ \E llm \in MatchAnswers(daily_matches, now) :
       \E llm2 \in ChampionshipAnswers(market_odds) :
         \E run \in {MainRun(daily_matches, market_odds, llm, llm2, now)} :
           /\ daily_matches' = run.table
           /\ market_odds' = run.market
           /\ job' = run.job
  /\ UNCHANGED <<now, odds_history, matchVars, resolveVars, devigVars>>

\* the job and the scraper's writes of daily_matches, on a database whose
\* market_odds holds the World Cup candidate England
JobInit ==
  /\ call = NoCall
  /\ result = <<>>
  /\ NoMatchRun
  /\ now = 0
  /\ daily_matches = {}
  /\ market_odds = save_to_database(<<>>, <<>>, <<WorldCupEngland>>)
  /\ odds_history \in ChampionshipHistoryAfter({<<>>},
                        <<WorldCupEngland>>, 1, 1)
  /\ job = NoJob
  /\ feed = NoFeed
  /\ devigged = <<>>

JobNext ==
  \/ Tick
  \/ SaveDailyMatches
  \/ SaveSoccerMatches
  \/ Main

SpecJob == JobInit /\ [][JobNext]_vars

\* the job and the scraper's writes of market_odds
MarketInit ==
  /\ call = NoCall
  /\ result = <<>>
  /\ NoMatchRun
  /\ NoStoreRun
  /\ feed = NoFeed
  /\ devigged = <<>>

MarketNext ==
  \/ SaveToDatabase
  \/ Main
  \/ Tick

SpecMarket == MarketInit /\ [][MarketNext]_vars
(***************************************************************************)
(* The scraper and the analysis job: a behaviour is a pairing run, a       *)
(* resolver call, a fetcher processing one bookmaker response, or a call   *)
(* of the analysis job.                                                    *)
(***************************************************************************)
Init == MatchInit \/ ResolveInit \/ DevigInit \/ AnalysisInit \/ HistoryInit \/ JobInit \/ MarketInit

Next == MatchNext \/ ResolveNext \/ DevigNext \/ AnalysisNext \/ HistoryNext \/ JobNext \/ MarketNext

Spec == Init /\ [][Next]_vars

(***************************************************************************)
(* Properties of the pairing functions.                                    *)
(***************************************************************************)
\* a record of the output that stems from a bookmaker event
FromWeb2(r) == r.match_id[1] = "web2"

\* a bookmaker-derived record that carries the data of a market event; the
\* url of a market event is its list index
Paired(r) == FromWeb2(r) /\ r.polymarket_url # NoneNum

\* a market-only record of the market event at list index idx
MarketOnly(r, idx) == r.match_id[1] = "poly" /\ r.polymarket_url = idx

\* the market event at idx was paired with some bookmaker event
IsPaired(idx) ==
  \E i \in 1..Len(merged) : Paired(merged[i]) /\ merged[i].polymarket_url = idx

\* the number of market-only records of the market event at idx
MarketOnlyCount(idx) == Cardinality({i \in 1..Len(merged) : MarketOnly(merged[i], idx)})

\* both names of the bookmaker event resolve, and the resolved pair is the
\* pair of the market event in one of the two orientations
SameTeamsNba(w, pm) ==
  /\ NbaResolved[w.home_team] # None
  /\ NbaResolved[w.away_team] # None
  /\ {NbaResolved[w.home_team], NbaResolved[w.away_team]} = {pm.team1, pm.team2}

\* the same for soccer, where a name resolves through the strict dictionary
\* (normalize_team_for_matching) or through fuzzy_match_soccer_team
SameTeamsSoccer(w, pm) ==
  \/ {lower(SoccerNormalized[w.home_team]), lower(SoccerNormalized[w.away_team])}
       = {lower(SoccerNormalized[pm.home_team]), lower(SoccerNormalized[pm.away_team])}
  \/ /\ None \notin {SoccerResolved[w.home_team], SoccerResolved[w.away_team],
                     SoccerResolved[pm.home_team], SoccerResolved[pm.away_team]}
     /\ {SoccerResolved[w.home_team], SoccerResolved[w.away_team]}
          = {SoccerResolved[pm.home_team], SoccerResolved[pm.away_team]}

SameTeams(w, pm) == IF sport = "nba" THEN SameTeamsNba(w, pm) ELSE SameTeamsSoccer(w, pm)

\* the market event has both its home and its away price
HasBothPrices(pm) ==
  IF sport = "nba" THEN pm.team1_price # NoneNum /\ pm.team2_price # NoneNum
  ELSE pm.home_price # NoneNum /\ pm.away_price # NoneNum

\* C1: each market event (identified by its list index) is paired with at
\* most one bookmaker event: no two bookmaker-derived records of the output
\* carry the prices of the same market event.
C1_NoMarketEventPairedTwice ==
  \A i, j \in 1..Len(merged) :
    (i # j /\ Paired(merged[i]) /\ Paired(merged[j]))
      => merged[i].polymarket_url # merged[j].polymarket_url

\* C2: a bookmaker event is paired with a market event only when the names
\* on both sides resolve to non-null entities and the resolved pairs are
\* equal in one of the two orientations; a bookmaker event that is not
\* paired is output with poly_home_price = poly_away_price = None.
C2_PairedOnlyWhenResolvedEqual ==
  \A i \in 1..Len(merged) :
    FromWeb2(merged[i]) =>
      /\ Paired(merged[i])
           => SameTeams(web2_matches[i], poly_matches[merged[i].polymarket_url])
      /\ ~Paired(merged[i])
           => merged[i].poly_home_price = NoneNum /\ merged[i].poly_away_price = NoneNum

OneEventEachSameTeams ==
  /\ Returned
  /\ Len(web2_matches) = 1
  /\ Len(poly_matches) = 1
  /\ SameTeams(web2_matches[1], poly_matches[1])

\* the market event lists the bookmaker's home team second
ListedInReverse(w, pm) ==
  IF sport = "nba" THEN NbaResolved[w.home_team] = pm.team2
  ELSE \/ lower(SoccerNormalized[w.home_team]) = lower(SoccerNormalized[pm.away_team])
       \/ /\ lower(SoccerNormalized[w.home_team]) # lower(SoccerNormalized[pm.home_team])
          /\ SoccerResolved[w.home_team] = SoccerResolved[pm.away_team]

\* the market event's prices as <<price of w's home team, price of w's away team>>
PricesInOrderOf(w, pm) ==
  IF sport = "nba"
  THEN IF ListedInReverse(w, pm) THEN <<pm.team2_price, pm.team1_price>>
       ELSE <<pm.team1_price, pm.team2_price>>
  ELSE IF ListedInReverse(w, pm) THEN <<pm.away_price, pm.home_price>>
       ELSE <<pm.home_price, pm.away_price>>

\* C5 as stated: one bookmaker event (A home, B away) and one market event
\* of the same two resolved teams, listed as (A, B) or as (B, A), give
\* exactly one paired record, with non-null market prices, and no
\* market-only record.
C5_OnePairedRecordWithPrices ==
  OneEventEachSameTeams =>
    /\ Len(merged) = 1
    /\ Paired(merged[1])
    /\ merged[1].poly_home_price # NoneNum
    /\ merged[1].poly_away_price # NoneNum

\* C5: one bookmaker event (A home, B away) and one market event of the same
\* two resolved teams, listed as (A, B) or as (B, A), give exactly one
\* record: the bookmaker event paired with the market event, carrying the
\* market event's prices for A and B as they are (a price the market event
\* lacks stays None), and no market-only record.
C5_PairingSymmetricInOrientation ==
  OneEventEachSameTeams =>
    /\ Len(merged) = 1
    /\ Paired(merged[1])
    /\ merged[1].polymarket_url = 1
    /\ <<merged[1].poly_home_price, merged[1].poly_away_price>>
         = PricesInOrderOf(web2_matches[1], poly_matches[1])

\* a finished run that paired a market event listing the teams as (B, A)
C5_Witness ==
  /\ OneEventEachSameTeams
  /\ ListedInReverse(web2_matches[1], poly_matches[1])
  /\ Paired(merged[1])

(***************************************************************************)
(* Properties of the resolvers.                                            *)
(***************************************************************************)
\* a call of fn has returned
Done(fn) == call.fn = fn /\ result # <<>>

\* a call of one of the two resolvers that take a threshold has returned
FuzzyDone == Done("fuzzy_match_team") \/ Done("fuzzy_match_soccer_team")

\* the table and the substring rule of a resolver
TableOf(fn) == IF fn = "fuzzy_match_team" THEN NBA_TEAM_ALIASES ELSE SOCCER_TEAM_ALIASES

IsSoccer(fn) == fn = "fuzzy_match_soccer_team"

\* the name as the resolvers compare it: trimmed and lower-cased
Compared(name) == lower(strip(name))

\* the canonical names and aliases of a table, lower-cased
LowerNames(table) ==
  UNION {{lower(table[t][1])} \cup {lower(table[t][2][k]) : k \in 1..Len(table[t][2])} :
           t \in 1..Len(table)}

NbaLowerNames == LowerNames(NBA_TEAM_ALIASES)

SoccerLowerNames == LowerNames(SOCCER_TEAM_ALIASES)

\* the name of the call is an exact hit: a key or a value of the strict
\* dictionary (soccer), or equal, case-insensitively, to a canonical name
\* or an alias (surrounding whitespace is not part of a name)
ExactInput ==
  IF IsSoccer(call.fn)
  THEN strip(call.name) \in StrictNames \/ Compared(call.name) \in SoccerLowerNames
  ELSE Compared(call.name) \in NbaLowerNames

\* the score of candidate k of team t: k = 0 is the canonical name, k > 0
\* the k-th alias, for which a substring hit counts as 90
CandidateScore(table, t, k, name_lower, soccer) ==
  IF k = 0 THEN ratio(name_lower, lower(table[t][1]))
  ELSE Max2(ratio(name_lower, lower(table[t][2][k])),
            IF Partial(lower(table[t][2][k]), name_lower, soccer) THEN 90 ELSE 0)

\* the greatest element of a non-empty set of numbers
MaxOf(S) == CHOOSE x \in S : \A y \in S : y <= x

\* the best score of each team of the table for a name
TeamScores(table, name_lower, soccer) ==
  [t \in 1..Len(table) |->
     MaxOf({CandidateScore(table, t, k, name_lower, soccer) : k \in 0..Len(table[t][2])})]

\* from the team scores: the best score, and the teams that attain it, as
\* positions in the table
BestOfScores(scores, best) == <<best, {t \in DOMAIN scores : scores[t] = best}>>

Best(table, name_lower, soccer) ==
  BestOfScores(TeamScores(table, name_lower, soccer),
               MaxOf({MaxOf({CandidateScore(table, t, k, name_lower, soccer) :
                               k \in 0..Len(table[t][2])}) : t \in 1..Len(table)}))

\* the same for the explored names without an exact hit
BestOf ==
  [a \in ({"fuzzy_match_team"} \X NbaCallNames)
           \cup ({"fuzzy_match_soccer_team"} \X SoccerCallNames) |->
     Best(TableOf(a[1]), Compared(a[2]), IsSoccer(a[1]))]

\* the best similarity score of the name of the call over the whole table
BestScore == BestOf[<<call.fn, call.name>>][1]

\* the teams that attain the best score, as positions in the table
BestTeams == BestOf[<<call.fn, call.name>>][2]

\* the first of them in the iteration order of the table
FirstBestTeam == TableOf(call.fn)[CHOOSE t \in BestTeams : \A u \in BestTeams : t <= u][1]

\* fuzzy_match_soccer_team(name)[0] for the names of the strict dictionary
SoccerCanonical ==
  [n \in StrictNames |-> fuzzy_match_soccer_team(n, DefaultThreshold)[1]]

\* C6: for every entry key -> value of SOCCER_TEAM_MAPPING,
\* normalize_team_for_matching(key) = value and
\* normalize_team_for_matching(value) = value, and
\* fuzzy_match_soccer_team reports confidence 100 for the key and the value.
C6_StrictDictionaryExact ==
  /\ (Done("normalize_team_for_matching") /\ call.name \in DOMAIN SOCCER_TEAM_MAPPING)
       => result[1] = SOCCER_TEAM_MAPPING[call.name]
  /\ (Done("normalize_team_for_matching") /\ call.name \in Range(SOCCER_TEAM_MAPPING))
       => result[1] = call.name
  /\ (Done("fuzzy_match_soccer_team") /\ call.name \in StrictNames)
       => result[1][2] = 100

\* normalize_team_for_matching has returned the value of a key that differs
\* from its value
C6_Witness ==
  /\ Done("normalize_team_for_matching")
  /\ call.name \in DOMAIN SOCCER_TEAM_MAPPING
  /\ SOCCER_TEAM_MAPPING[call.name] # call.name
  /\ result[1] = SOCCER_TEAM_MAPPING[call.name]

\* C7: for every entry key -> value of SOCCER_TEAM_MAPPING,
\* fuzzy_match_soccer_team(key) and fuzzy_match_soccer_team(value) return the
\* same canonical name, and so do any two keys that map to the same value.
C7_OneCanonicalNamePerEntity ==
  (Done("fuzzy_match_soccer_team") /\ call.name \in DOMAIN SOCCER_TEAM_MAPPING) =>
    /\ result[1][1] = SoccerCanonical[SOCCER_TEAM_MAPPING[call.name]]
    /\ \A k \in DOMAIN SOCCER_TEAM_MAPPING :
         SOCCER_TEAM_MAPPING[k] = SOCCER_TEAM_MAPPING[call.name]
           => SoccerCanonical[k] = result[1][1]

\* C8: a name without an exact hit whose best score equals the threshold
\* resolves, with that score, to a team that attains it; a name whose best
\* score is threshold - 1 or lower returns (None, 0).
C8_ThresholdBoundary ==
  (FuzzyDone /\ ~ExactInput) =>
    /\ BestScore = call.threshold
         => /\ result[1][2] = call.threshold
            /\ \E t \in BestTeams : result[1][1] = TableOf(call.fn)[t][1]
    /\ BestScore <= call.threshold - 1 => result[1] = <<None, 0>>

\* a name whose best score is exactly the default threshold has resolved
C8_Witness ==
  /\ FuzzyDone
  /\ ~ExactInput
  /\ call.threshold = DefaultThreshold
  /\ BestScore = DefaultThreshold
  /\ result[1][1] # None

\* C9: a result is (None, 0) or (name, c) with threshold <= c <= 100; c = 100
\* only for an exact hit; in every other resolved case c is the best
\* similarity score found, a substring hit counting as 90.
C9_ConfidenceRange ==
  FuzzyDone =>
    \/ result[1] = <<None, 0>>
    \/ /\ result[1][1] # None
       /\ call.threshold <= result[1][2]
       /\ result[1][2] <= 100
       /\ result[1][2] = 100 => ExactInput
       /\ ~ExactInput => result[1][2] = BestScore

\* a name without an exact hit has resolved by a substring hit, with 90
C9_Witness ==
  /\ FuzzyDone
  /\ ~ExactInput
  /\ result[1][1] # None
  /\ result[1][2] = 90
  /\ BestScore = 90

\* C10: the result is a function of the name, the threshold and the tables:
\* for a name without an exact hit it is the best score together with the
\* first team, in the iteration order of the alias table, that attains it,
\* or (None, 0) when the best score is below the threshold.
C10_FirstEncounteredWinsTies ==
  (FuzzyDone /\ ~ExactInput) =>
    result[1] = IF BestScore >= call.threshold THEN <<FirstBestTeam, BestScore>>
                ELSE <<None, 0>>

\* several teams tie at the best score, and the first of them was returned
C10_Witness ==
  /\ FuzzyDone
  /\ ~ExactInput
  /\ Cardinality(BestTeams) > 1
  /\ result[1] = <<FirstBestTeam, BestScore>>

\* C19: for a name with a non-whitespace character normalize_team_for_matching
\* returns a non-empty string, and when the name without ticker prefix and
\* club suffix is empty, it returns the trimmed name
C19_NormalizedNameNotEmpty ==
  Done("normalize_team_for_matching") /\ strip(call.name) # "" =>
    /\ result[1] # ""
    /\ NameVariants(strip(call.name))[4] = "" => result[1] = strip(call.name)

\* the canonical name and the aliases of one entry of a table, lower-cased
NamesOfEntry(entry) ==
  {lower(entry[1])} \cup {lower(entry[2][k]) : k \in 1..Len(entry[2])}

\* the lower-cased names of every entry of an alias table
EntryNames(table) == [t \in 1..Len(table) |-> NamesOfEntry(table[t])]

NbaEntryNames == EntryNames(NBA_TEAM_ALIASES)

SoccerEntryNames == EntryNames(SOCCER_TEAM_ALIASES)

\* no name belongs to two entries of the alias table
AliasesUnambiguous(names) ==
  \A t, u \in 1..Len(names) : t # u => names[t] \cap names[u] = {}

\* no assignment of create_reverse_mapping meets a key that holds another
\* standard name
NeverOverwritten(items) ==
  \A i, j \in 1..Len(items) : items[i][1] = items[j][1] => items[i][2] = items[j][2]

\* C20: whatever resolver is called, within NBA_TEAM_ALIASES and within
\* SOCCER_TEAM_ALIASES no lower-cased canonical name or alias belongs to two
\* teams, and within each platform of MAPPING no lower-cased platform name
\* belongs to two standard names, so that create_reverse_mapping never
\* replaces an entry by another entity
C20_TablesUnambiguous ==
  call.fn \in {"normalize_team_for_matching", "fuzzy_match_team", "fuzzy_match_soccer_team"} =>
    /\ AliasesUnambiguous(NbaEntryNames)
    /\ AliasesUnambiguous(SoccerEntryNames)
    /\ \A platform \in DOMAIN REVERSE_MAPPING : NeverOverwritten(REVERSE_MAPPING[platform])

\* a call resolved by an alias of the NBA table: the alias "lakers" belongs
\* to one team only
C20_Witness ==
  /\ Done("fuzzy_match_team")
  /\ Compared(call.name) = "lakers"
  /\ result[1][1] = "Los Angeles Lakers"
  /\ Cardinality({t \in 1..Len(NbaEntryNames) : "lakers" \in NbaEntryNames[t]}) = 1

\* the standard names of the team T: the names of the MAPPING entries that
\* list T as their web2 or poly name
StandardNamesOf(T) ==
  {MAPPING[i][1] : i \in {j \in 1..Len(MAPPING) :
                            lower(T) \in {lower(MAPPING[j][2]), lower(MAPPING[j][3])}}}

\* C25: for every canonical team name T of NBA_TEAM_ALIASES and of MAPPING
\* and each platform, standardize_name(T, platform) is the standard name of
\* T itself or T unchanged, never the standard name of another team
C25_StandardNameOfTheSameTeam ==
  Done("standardize_name") =>
    result[1] \in {call.name} \cup StandardNamesOf(call.name)

\* C26: fuzzy_match_team and fuzzy_match_soccer_team return (None, 0) for
\* an empty or whitespace-only name
C26_EmptyNameUnresolved ==
  (Done("fuzzy_match_team") \/ Done("fuzzy_match_soccer_team")) /\ strip(call.name) = "" =>
    result[1] = <<None, 0>>

(***************************************************************************)
(* Properties of the bookmaker fetchers.                                   *)
(***************************************************************************)
\* the function fn has returned
Returns(fn) == feed.fn = fn /\ devigged # <<>>

RECURSIVE SumOdds(_, _)
\* the sum of the returned probabilities of a team map, in units of 0.0001
SumOdds(team_data, teams) ==
  IF teams = {} THEN 0
  ELSE team_data[CHOOSE t \in teams : TRUE].odds
         + SumOdds(team_data, teams \ {CHOOSE t \in teams : TRUE})

\* C3: the de-vigged probabilities that are returned sum to 1.0 within 1e-6:
\* home_odds + away_odds for every event of fetch_nba_matches_web2,
\* home_odds + draw_odds + away_odds for every event of
\* fetch_soccer_matches_web2, and the odds of the whole team map of
\* process_web2_data; the returned values are multiples of 0.0001, so that the
\* sum is within 1e-6 of 1.0 exactly if it is 10000 units
C3_DevigSumsToOne ==
  /\ Returns("fetch_nba_matches_web2") =>
       \A i \in 1..Len(devigged[1]) :
         devigged[1][i].home_odds + devigged[1][i].away_odds = 10000
  /\ Returns("fetch_soccer_matches_web2") =>
       \A i \in 1..Len(devigged[1]) :
         devigged[1][i].home_odds + devigged[1][i].draw_odds + devigged[1][i].away_odds = 10000
  /\ Returns("process_web2_data") /\ DOMAIN devigged[1] # {} =>
       SumOdds(devigged[1], DOMAIN devigged[1]) = 10000

(***************************************************************************)
(* Properties of process_web2_data.                                        *)
(***************************************************************************)
\* the outrights quotes of the response that carry a name and odds above 1,
\* with their standard name
Quotes == CollectedAbove60(SelectSeq(AllOutcomes(feed.data), Priced))

\* the implied probability of a quote is above 0.60: 1 / odds > 3 / 5
Above60(price) == 500 > 3 * price

\* the quotes of a team at or below 0.60, and those above
QuotesWithin(quotes, team) ==
  {k \in 1..Len(quotes) : quotes[k].team = team /\ ~FracGreater(quotes[k].prob, <<3, 5>>)}

QuotesAbove(quotes, team) ==
  {k \in 1..Len(quotes) : quotes[k].team = team /\ FracGreater(quotes[k].prob, <<3, 5>>)}

\* the teams with a quote at or below 0.60
TeamsWithin(quotes) ==
  {quotes[k].team : k \in {k \in 1..Len(quotes) : QuotesWithin(quotes, quotes[k].team) # {}}}

\* a team with quotes above 0.60 and at or below it
TeamAboveAndWithin(quotes) ==
  {quotes[k].team : k \in {k \in 1..Len(quotes) :
                             /\ QuotesAbove(quotes, quotes[k].team) # {}
                             /\ QuotesWithin(quotes, quotes[k].team) # {}}}

\* the response without the outcomes whose implied probability is above 0.60
Without60(data) ==
  [e \in 1..Len(data) |->
     [bookmakers |->
        [b \in 1..Len(data[e].bookmakers) |->
           [key |-> data[e].bookmakers[b].key,
            market |-> data[e].bookmakers[b].market,
            outcomes |-> SelectSeq(data[e].bookmakers[b].outcomes,
                                   LAMBDA o : ~(Priced(o) /\ Above60(o.price)))]]]]

\* C11: in process_web2_data a quote whose implied probability is above 0.60
\* is excluded from its team's average while the team's other quotes are
\* still averaged (the result is the one of the response without those
\* quotes, and a team with a quote at or below 0.60 is in it); a team whose
\* every quote exceeds 0.60 is absent from the result
C11_QuotesAbove60Excluded ==
  Returns("process_web2_data") /\ feed.data # <<>> =>
    /\ devigged[1] \in process_web2_data(Without60(feed.data))
    /\ \E quotes \in {Quotes} : DOMAIN devigged[1] = TeamsWithin(quotes)

\* a team with a quote above 0.60 and one below is in the result, and a team
\* with no quote below is not
C11_Witness ==
  /\ Returns("process_web2_data")
  /\ \E quotes \in {Quotes} :
       /\ TeamAboveAndWithin(quotes) \cap DOMAIN devigged[1] # {}
       /\ \E k \in 1..Len(quotes) :
            /\ QuotesWithin(quotes, quotes[k].team) = {}
            /\ quotes[k].team \notin DOMAIN devigged[1]

(***************************************************************************)
(* Properties of the quotes that are averaged.                             *)
(***************************************************************************)
\* a bookmaker that quotes every outcome of the h2h market
QuotesAll(bookmaker) ==
  bookmaker.market = "h2h" /\ \A k \in DOMAIN bookmaker.prices : bookmaker.prices[k] # NoneNum

\* the bookmakers of an event whose quote of outcome k has odds above 1
QuotesOfOutcome(event, k) ==
  SelectSeq(event.bookmakers, LAMBDA b : QuotesAll(b) /\ b.prices[k] > 100)

\* an event each of whose outcomes has a quote with odds above 1
EveryOutcomeQuoted(event, outcomes) ==
  Complete(event) /\ \A k \in 1..outcomes : QuotesOfOutcome(event, k) # <<>>

\* the mean of the quotes of outcome k: of the preferred ones if there is any
MeanOfOutcome(quotes, k) == Mean([i \in 1..Len(quotes) |-> ImpliedProb(quotes[i].prices[k])])

MeansByOutcome(event, outcomes, preferred) ==
  [k \in 1..outcomes |->
     MeanOfOutcome(Averaged(QuotesOfOutcome(event, k),
                            Preferred(QuotesOfOutcome(event, k), preferred)), k)]

\* the normalised, rounded means of an event
OddsByOutcome(event, outcomes, preferred) ==
  Devigged(MeansByOutcome(event, outcomes, preferred),
           FracSum(MeansByOutcome(event, outcomes, preferred), 1))

\* the events of the response that have a quote above 1 for every outcome,
\* with their odds when every such quote contributes
QuotedEvents(outcomes, preferred) ==
  [i \in 1..Len(SelectSeq(feed.data, LAMBDA e : EveryOutcomeQuoted(e, outcomes))) |->
     OddsByOutcome(SelectSeq(feed.data, LAMBDA e : EveryOutcomeQuoted(e, outcomes))[i],
                   outcomes, preferred)]

\* the outrights response without the outcomes whose odds are 1 or less
WithoutOddsUpTo1(data) ==
  [e \in 1..Len(data) |->
     [bookmakers |->
        [b \in 1..Len(data[e].bookmakers) |->
           [key |-> data[e].bookmakers[b].key,
            market |-> data[e].bookmakers[b].market,
            outcomes |-> SelectSeq(data[e].bookmakers[b].outcomes,
                                   LAMBDA o : o.price = NoneNum \/ o.price > 100)]]]]

\* C12: a quote with odds <= 1 contributes to no average and only that quote
\* is discarded: the returned events are the events with a quote above 1 for
\* every outcome, their odds are the normalised means over all those quotes
\* (of the other outcomes and of the other bookmakers too), and the team map
\* of process_web2_data is the one of the response without the quotes <= 1
C12_OnlyTheInvalidQuoteDiscarded ==
  /\ Returns("fetch_nba_matches_web2") =>
       [i \in 1..Len(devigged[1]) |-> <<devigged[1][i].home_odds, devigged[1][i].away_odds>>]
         = QuotedEvents(2, NBA_PREFERRED_BOOKMAKERS)
  /\ Returns("fetch_soccer_matches_web2") =>
       [i \in 1..Len(devigged[1]) |->
          <<devigged[1][i].home_odds, devigged[1][i].draw_odds, devigged[1][i].away_odds>>]
         = QuotedEvents(3, SOCCER_PREFERRED_BOOKMAKERS)
  /\ Returns("process_web2_data") /\ feed.data # <<>> =>
       devigged[1] \in process_web2_data(WithoutOddsUpTo1(feed.data))

\* the outcomes of the outrights markets of the response
OutrightsOutcomes ==
  UNION {UNION {{feed.data[e].bookmakers[b].outcomes[k] :
                   k \in 1..Len(feed.data[e].bookmakers[b].outcomes)} :
                  b \in {b \in 1..Len(feed.data[e].bookmakers) :
                           feed.data[e].bookmakers[b].market = "outrights"}} :
           e \in 1..Len(feed.data)}

\* a quote without a name or a price, with odds <= 1, or filtered out for an
\* implied probability above 0.60
InvalidQuote(o) ==
  \/ o.name = None \/ o.name = ""
  \/ o.price = NoneNum
  \/ o.price <= 100
  \/ Above60(o.price)

\* C13: process_web2_data returns the empty map when the input is empty and
\* when every quote of the input is invalid (odds <= 1, missing name or
\* price, or filtered out)
C13_EmptyMapWithoutValidQuote ==
  Returns("process_web2_data") /\ (\A o \in OutrightsOutcomes : InvalidQuote(o)) =>
    devigged[1] = <<>>

\* a response with quotes, every one of them invalid, gave the empty map
C13_Witness ==
  /\ Returns("process_web2_data")
  /\ \E o \in OutrightsOutcomes : o.price # NoneNum /\ o.price <= 100
  /\ \E o \in OutrightsOutcomes : o.price # NoneNum /\ o.price > 100 /\ Above60(o.price)
  /\ \A o \in OutrightsOutcomes : InvalidQuote(o)
  /\ devigged[1] = <<>>

RECURSIVE SumOfProbs(_, _)
\* the sum of the probabilities probs[i], i in idxs
SumOfProbs(probs, idxs) ==
  IF idxs = {} THEN <<0, 1>>
  ELSE FracAdd(probs[CHOOSE i \in idxs : TRUE],
               SumOfProbs(probs, idxs \ {CHOOSE i \in idxs : TRUE}))

\* the arithmetic mean of the probabilities probs[i], i in idxs
ArithmeticMean(probs, idxs) == FracDiv(SumOfProbs(probs, idxs), <<Cardinality(idxs), 1>>)

\* the quotes that enter the mean: the preferred ones when there is at least
\* one, otherwise all
Entering(all, preferred) == IF all \cap preferred # {} THEN all \cap preferred ELSE all

\* the raw probability of side k of an event: valid are the bookmakers the
\* fetcher has taken into its lists
RawOfSide(valid, k, preferred) ==
  ArithmeticMean([i \in 1..Len(valid) |-> ImpliedProb(valid[i].prices[k])],
                 Entering(1..Len(valid), {i \in 1..Len(valid) : valid[i].key \in preferred}))

\* the returned odds of an event by the rule of the preferred bookmakers
OddsOfEvent(valid, outcomes, preferred) ==
  Devigged([k \in 1..outcomes |-> RawOfSide(valid, k, preferred)],
           FracSum([k \in 1..outcomes |-> RawOfSide(valid, k, preferred)], 1))

\* the raw probability of a team in process_web2_data
RawOfTeam(quotes, team) ==
  ArithmeticMean([k \in 1..Len(quotes) |-> quotes[k].prob],
                 Entering(QuotesWithin(quotes, team),
                          {k \in 1..Len(quotes) : quotes[k].key \in PREFERRED_BOOKMAKERS}))

RECURSIVE SumOfRaw(_, _)
\* the sum of the raw probabilities of the teams
SumOfRaw(quotes, teams) ==
  IF teams = {} THEN <<0, 1>>
  ELSE FracAdd(RawOfTeam(quotes, CHOOSE t \in teams : TRUE),
               SumOfRaw(quotes, teams \ {CHOOSE t \in teams : TRUE}))

\* the odds of every team of a team map by the rule of the preferred bookmakers
OddsOfTeams(quotes, total, team_data) ==
  \A team \in DOMAIN team_data :
    team_data[team].odds = Round4(FracDiv(RawOfTeam(quotes, team), total))

\* C14: the raw probability that enters normalization is, for each outcome,
\* the arithmetic mean of the quotes of preferred bookmakers when there is at
\* least one, and otherwise the mean of all valid quotes: per home, draw,
\* away side in the two fetchers, per team in process_web2_data
C14_MeanOfPreferredElseAll ==
  /\ Returns("fetch_nba_matches_web2") =>
       \A i \in 1..Len(devigged[1]) :
         <<devigged[1][i].home_odds, devigged[1][i].away_odds>>
           = OddsOfEvent(OddsList(Yielding(feed.data)[i]), 2, NBA_PREFERRED_BOOKMAKERS)
  /\ Returns("fetch_soccer_matches_web2") =>
       \A i \in 1..Len(devigged[1]) :
         <<devigged[1][i].home_odds, devigged[1][i].draw_odds, devigged[1][i].away_odds>>
           = OddsOfEvent(OddsList(Yielding(feed.data)[i]), 3, SOCCER_PREFERRED_BOOKMAKERS)
  /\ Returns("process_web2_data") /\ feed.data # <<>> =>
       \E quotes \in {Quotes} :
         \E total \in {SumOfRaw(quotes, DOMAIN devigged[1])} :
           OddsOfTeams(quotes, total, devigged[1])

\* a returned event with valid quotes of a preferred bookmaker and of another
\* one with other odds
C14_Witness ==
  /\ Returns("fetch_soccer_matches_web2")
  /\ devigged[1] # <<>>
  /\ \E i, j \in 1..Len(OddsList(Yielding(feed.data)[1])) :
       /\ OddsList(Yielding(feed.data)[1])[i].key \in SOCCER_PREFERRED_BOOKMAKERS
       /\ OddsList(Yielding(feed.data)[1])[j].key \notin SOCCER_PREFERRED_BOOKMAKERS
       /\ OddsList(Yielding(feed.data)[1])[i].prices # OddsList(Yielding(feed.data)[1])[j].prices


\* the strictly compared form of every name of the soccer pools
LoweredNormalized == [n \in SoccerNames |-> lower(SoccerNormalized[n])]

\* the teams of the market event pm, taken in the orientation o, are equal to
\* the home and the away team of the bookmaker event w as the pairing
\* compares them: resolved names (NBA), strictly normalized or resolved
\* names (soccer)
SidesEqual(w, pm, o) ==
  IF sport = "nba"
  THEN /\ NbaResolved[w.home_team] = (IF o = "direct" THEN pm.team1 ELSE pm.team2)
       /\ NbaResolved[w.away_team] = (IF o = "direct" THEN pm.team2 ELSE pm.team1)
  ELSE \E home \in {IF o = "direct" THEN pm.home_team ELSE pm.away_team} :
         \E away \in {IF o = "direct" THEN pm.away_team ELSE pm.home_team} :
           \/ /\ LoweredNormalized[w.home_team] = LoweredNormalized[home]
              /\ LoweredNormalized[w.away_team] = LoweredNormalized[away]
           \/ /\ SoccerResolved[w.home_team] = SoccerResolved[home]
              /\ SoccerResolved[w.away_team] = SoccerResolved[away]

\* <<home price, home liquidity, away price, away liquidity>> of the market
\* event in the orientation o
SidesOf(pm, o) ==
  IF sport = "nba"
  THEN IF o = "direct"
       THEN <<pm.team1_price, pm.team1_liquidity, pm.team2_price, pm.team2_liquidity>>
       ELSE <<pm.team2_price, pm.team2_liquidity, pm.team1_price, pm.team1_liquidity>>
  ELSE IF o = "direct"
       THEN <<pm.home_price, pm.home_liq, pm.away_price, pm.away_liq>>
       ELSE <<pm.away_price, pm.away_liq, pm.home_price, pm.home_liq>>

\* the paired record r carries the sides of pm in the orientation o
CarriesSides(r, pm, o) ==
  /\ <<r.poly_home_price, r.liquidity_home, r.poly_away_price, r.liquidity_away>>
       = SidesOf(pm, o)
  /\ sport = "soccer" => r.poly_draw_price = pm.draw_price

\* C21: every paired record carries, as poly_home_price and liquidity_home,
\* the price and liquidity of the market-side team that is equal to the
\* bookmaker's home team, and as poly_away_price and liquidity_away those of
\* the team equal to the bookmaker's away team, whether the market event
\* lists the teams directly or swapped; the draw price is the market
\* event's in both orientations
C21_SidesFollowTheBookmakerTeams ==
  \A i \in 1..Len(merged) :
    Paired(merged[i]) =>
      \E o \in {"direct", "swapped"} :
        /\ SidesEqual(web2_matches[i], poly_matches[merged[i].polymarket_url], o)
        /\ CarriesSides(merged[i], poly_matches[merged[i].polymarket_url], o)

\* a soccer record paired with a market event that lists the teams swapped
\* and has different prices and liquidities on its two sides
C21_Witness ==
  /\ sport = "soccer"
  /\ \E i \in 1..Len(merged) :
       /\ Paired(merged[i])
       /\ ~SidesEqual(web2_matches[i], poly_matches[merged[i].polymarket_url], "direct")
       /\ CarriesSides(merged[i], poly_matches[merged[i].polymarket_url], "swapped")
       /\ merged[i].poly_home_price # merged[i].poly_away_price
       /\ merged[i].liquidity_home # merged[i].liquidity_away
       /\ merged[i].poly_draw_price # NoneNum

\* the record at position i of the output is the record of the bookmaker
\* event at position i of the input: its match_id and its odds
RecordOfWeb2(i) ==
  /\ merged[i].match_id = web2_matches[i].match_id
  /\ merged[i].home_odds = web2_matches[i].home_odds
  /\ merged[i].away_odds = web2_matches[i].away_odds

\* C22: the output holds exactly one record per bookmaker event, in input
\* order and before every market-only record, whether the event was paired,
\* unpaired or unresolvable: while the function runs the records of the
\* bookmaker events handled so far are the first records, and the returned
\* list has the length of the bookmaker list plus the market-only records
C22_OneRecordPerBookmakerEvent ==
  /\ sport \in {"nba", "soccer"} =>
       /\ Len(merged) >= w2_pos - 1
       /\ \A i \in 1..Len(merged) :
            IF i <= w2_pos - 1 THEN RecordOfWeb2(i) ELSE ~FromWeb2(merged[i])
  /\ sport \in {"nba", "soccer"} /\ Returned =>
       Len(merged) = Len(web2_matches)
                       + Cardinality({i \in 1..Len(merged) : ~FromWeb2(merged[i])})

\* a returned NBA run with an unresolvable bookmaker event, a paired one
\* and a market-only record
C22_Witness ==
  /\ sport = "nba"
  /\ Returned
  /\ Len(web2_matches) = 2
  /\ NbaResolved[web2_matches[1].home_team] = None
  /\ ~Paired(merged[1])
  /\ Paired(merged[2])
  /\ Len(merged) = 3
  /\ ~FromWeb2(merged[3])

\* the strictly normalized names of the market event pm are those of the
\* bookmaker event w, directly or swapped
StrictlyEqual(w, pm) ==
  \/ /\ LoweredNormalized[pm.home_team] = LoweredNormalized[w.home_team]
     /\ LoweredNormalized[pm.away_team] = LoweredNormalized[w.away_team]
  \/ /\ LoweredNormalized[pm.home_team] = LoweredNormalized[w.away_team]
     /\ LoweredNormalized[pm.away_team] = LoweredNormalized[w.home_team]

\* the market events of the list that match w strictly
StrictMatches(w) == {j \in 1..Len(poly_matches) : StrictlyEqual(w, poly_matches[j])}

\* C23: in match_soccer_games a bookmaker event with a market event that
\* matches its strictly normalized names is paired with the first such
\* market event, also when an earlier market event matches through the fuzzy
\* resolver; it is paired through the fuzzy resolver only if no market event
\* of the list matches strictly
C23_StrictPassBeforeFuzzy ==
  sport = "soccer" =>
    \A i \in 1..Len(merged) :
      FromWeb2(merged[i]) /\ StrictMatches(web2_matches[i]) # {} =>
        /\ Paired(merged[i])
        /\ merged[i].polymarket_url \in StrictMatches(web2_matches[i])
        /\ \A j \in StrictMatches(web2_matches[i]) : merged[i].polymarket_url <= j

\* a bookmaker event paired with the second market event, which matches
\* strictly, while the first matches through the fuzzy resolver only
C23_Witness ==
  /\ sport = "soccer"
  /\ Len(merged) >= 1
  /\ Paired(merged[1])
  /\ merged[1].polymarket_url = 2
  /\ StrictMatches(web2_matches[1]) = {2}
  /\ None # SoccerResolved[web2_matches[1].home_team]
  /\ {SoccerResolved[web2_matches[1].home_team], SoccerResolved[web2_matches[1].away_team]}
       = {SoccerResolved[poly_matches[1].home_team], SoccerResolved[poly_matches[1].away_team]}

\* C17: a paired bookmaker event carries the market event with the most
\* recent end time among the market events of the list that resolve to its
\* unordered team pair (every market event of the explored lists has an end
\* time)
C17_MostRecentEndTimePaired ==
  \A i \in 1..Len(merged) :
    Paired(merged[i]) =>
      \A j \in 1..Len(poly_matches) :
        SameTeams(web2_matches[i], poly_matches[j])
          => poly_matches[j].end_time <= poly_matches[merged[i].polymarket_url].end_time

\* the normalization step on a returned probability: divide by the sum of
\* all returned probabilities of the event or map, then round(x, 4)
Renormalized(odds, sum) == Round4(Frac(odds, sum))

\* C18: normalizing the returned probabilities of an event or of the team
\* map once more (each divided by their sum, then rounded to 4 places) gives
\* the returned probabilities again
C18_RenormalizationIdempotent ==
  /\ Returns("fetch_nba_matches_web2") =>
       \A i \in 1..Len(devigged[1]) :
         \E sum \in {devigged[1][i].home_odds + devigged[1][i].away_odds} :
           /\ Renormalized(devigged[1][i].home_odds, sum) = devigged[1][i].home_odds
           /\ Renormalized(devigged[1][i].away_odds, sum) = devigged[1][i].away_odds
  /\ Returns("fetch_soccer_matches_web2") =>
       \A i \in 1..Len(devigged[1]) :
         \E sum \in {devigged[1][i].home_odds + devigged[1][i].draw_odds
                        + devigged[1][i].away_odds} :
           /\ Renormalized(devigged[1][i].home_odds, sum) = devigged[1][i].home_odds
           /\ Renormalized(devigged[1][i].draw_odds, sum) = devigged[1][i].draw_odds
           /\ Renormalized(devigged[1][i].away_odds, sum) = devigged[1][i].away_odds
  /\ Returns("process_web2_data") /\ DOMAIN devigged[1] # {} =>
       \E sum \in {SumOdds(devigged[1], DOMAIN devigged[1])} :
         \A team \in DOMAIN devigged[1] :
           Renormalized(devigged[1][team].odds, sum) = devigged[1][team].odds

(***************************************************************************)
(* Properties of the analysis job.                                         *)
(***************************************************************************)
\* the fraction ev is (odds - poly) / poly
IsSideEv(ev, odds, poly) == ev[2] > 0 /\ ev[1] * poly = (odds - poly) * ev[2]

\* the fraction ev is at least (odds - poly) / poly
AtLeastSideEv(ev, odds, poly) == ev[1] * poly >= (odds - poly) * ev[2]

\* the sides <<true probability, market price>> of a calculate_ev call
SidesOfCall == {<<call.home_odds, call.poly_home>>, <<call.away_odds, call.poly_away>>}

\* the greatest EV of a set of sides, 0 for no side
IsMaxOfSides(ev, sides) ==
  IF sides = {} THEN ev = <<0, 1>>
  ELSE /\ \E s \in sides : IsSideEv(ev, s[1], s[2])
       /\ \A s \in sides : AtLeastSideEv(ev, s[1], s[2])

\* the sign of ev is the sign of odds - poly
SignOfEdge(ev, odds, poly) ==
  /\ ev[1] > 0 <=> odds > poly
  /\ ev[1] < 0 <=> odds < poly

\* C15 as stated: calculate_ev returns the greatest (true_probability -
\* market_price) / market_price of the sides with a positive market price,
\* and 0 when no side has one (calls whose four values are numbers)
C15_MaxOverPositivePrices ==
  Done("calculate_ev")
    /\ NoneNum \notin {call.home_odds, call.away_odds, call.poly_home, call.poly_away}
    => IsMaxOfSides(result[1], {s \in SidesOfCall : s[2] > 0})

\* C15: a side enters calculate_ev when its true probability is present and
\* not zero and its market price is positive; the function returns the
\* greatest (true_probability - market_price) / market_price of the entering
\* sides and 0 when none enters.  The EV of process_championship is
\* (web2_odds - price) / price for a positive price, a missing probability
\* counting as 0, and 0 otherwise.  Each side's EV is positive exactly when
\* the probability exceeds the price and negative exactly when it is below.
C15_MaxOverEnteringSides ==
  /\ Done("calculate_ev") =>
       /\ IsMaxOfSides(result[1], {s \in SidesOfCall : Truthy(s[1]) /\ s[2] > 0})
       /\ \A s \in SidesOfCall :
            Truthy(s[1]) /\ s[2] > 0 => SignOfEdge(SideEv(s[1], s[2]), s[1], s[2])
  /\ Done("process_championship") =>
       IF call.polymarket_price > 0
       THEN /\ IsSideEv(result[1].ev, OrZero(call.web2_odds), call.polymarket_price)
            /\ SignOfEdge(result[1].ev, OrZero(call.web2_odds), call.polymarket_price)
       ELSE result[1].ev = <<0, 1>>

\* a call whose two sides enter with different EVs, the home side's greater
C15_Witness ==
  /\ Done("calculate_ev")
  /\ call.home_odds = 60 /\ call.poly_home = 50
  /\ call.away_odds = 40 /\ call.poly_away = 50
  /\ result[1] = <<1, 5>>

\* ev is below 0.05 for a championship market, below 0.02 for another one
BelowThreshold(ev, is_championship) ==
  IF is_championship THEN ev[1] * 100 < 5 * ev[2] ELSE ev[1] * 100 < 2 * ev[2]

\* the call returned None without reaching the LLM
SkippedBeforeLlm(report) == report.value = None /\ ~report.llm_called

\* C16 as stated: with an LLM client available, generate_ai_report returns
\* None before any LLM call exactly when ev is below 0.05 for a championship
\* market and below 0.02 for a single-event market
C16_SkippedExactlyBelowThreshold ==
  Done("generate_ai_report") /\ call.available =>
    (SkippedBeforeLlm(result[1]) <=> BelowThreshold(call.ev, call.is_championship))

\* C16: with an LLM client available, a call of generate_ai_report without
\* force_analysis for a market with a positive price returns None before any
\* LLM call when ev is below the threshold (0.05 championship, 0.02
\* single-event) and reaches the LLM when ev is at or above it; a call with
\* force_analysis or without a positive price always reaches the LLM; a call
\* without a client returns None before any LLM call.  So process_match
\* (force_analysis) never skips a row and process_championship skips the
\* rows with a positive price and an EV below 0.05.
C16_GateSkipsBelowThresholdUnlessBypassed ==
  /\ Done("generate_ai_report") =>
       (SkippedBeforeLlm(result[1])
          <=> \/ ~call.available
              \/ /\ ~call.force_analysis
                 /\ call.polymarket_price > 0
                 /\ BelowThreshold(call.ev, call.is_championship))
  /\ Done("generate_ai_report") => (result[1].llm_called \/ SkippedBeforeLlm(result[1]))
  /\ Done("process_match") =>
       (SkippedBeforeLlm(result[1].report) <=> ~call.available)
  /\ Done("process_championship") =>
       (SkippedBeforeLlm(result[1].report)
          <=> \/ ~call.available
              \/ /\ call.polymarket_price > 0
                 /\ BelowThreshold(result[1].ev, TRUE))

\* a single-event market whose ev equals the threshold 0.02 reached the LLM
C16_Witness ==
  /\ Done("generate_ai_report")
  /\ call.available /\ ~call.force_analysis /\ ~call.is_championship
  /\ call.polymarket_price > 0
  /\ call.ev = <<2, 100>>
  /\ result[1].llm_called

\* C24: generate_ai_report applies the EV threshold only to a call without
\* force_analysis for a market with a price above 0; with force_analysis, or
\* with a price that is not above 0, an available client is called whatever
\* the EV.  The daily job forces the analysis of every daily match and
\* leaves the threshold in place for championship markets.
C24_ThresholdOnlyWithoutForceAndWithPrice ==
  /\ Done("generate_ai_report") /\ call.available =>
       IF call.force_analysis \/ call.polymarket_price <= 0
       THEN result[1].llm_called
       ELSE result[1].llm_called <=> ~BelowThreshold(call.ev, call.is_championship)
  /\ Done("process_match") /\ call.available => result[1].report.llm_called
  /\ Done("process_championship") /\ call.available =>
       IF OrZero(call.polymarket_price) <= 0
       THEN result[1].report.llm_called
       ELSE result[1].report.llm_called <=> ~BelowThreshold(result[1].ev, TRUE)

\* a daily match with a market price and a negative EV that reached the LLM
C24_Witness ==
  /\ Done("process_match")
  /\ call.poly_home > 0
  /\ result[1].ev = <<-1, 5>>
  /\ result[1].report.llm_called

(***************************************************************************)
(* Properties of the odds history.                                         *)
(***************************************************************************)
\* 0.005 for odds, prices and EV, 1.0 for liquidity, in the units of the rows
TrackedThreshold(event_type, i) ==
  IF event_type = "daily"
  THEN (IF i \in {5, 6, 9} THEN 2 ELSE 5)
  ELSE (IF i = 3 THEN 2 ELSE 5)

\* the field differs by at least thr, or is null on one side only
FieldDiffers(a, b, thr) ==
  \/ a # NoneNum /\ b # NoneNum /\ (a - b >= thr \/ b - a >= thr)
  \/ (a = NoneNum) # (b = NoneNum)

\* the EV differs by at least 0.005, or is null on one side only
EvDiffers(a, b) ==
  \/ /\ a # NoneEv /\ b # NoneEv
     /\ \/ 200 * (a[1] * b[2] - b[1] * a[2]) >= a[2] * b[2]
        \/ 200 * (b[1] * a[2] - a[1] * b[2]) >= a[2] * b[2]
  \/ (a = NoneEv) # (b = NoneEv)

EventTypeOf(c) == IF c.fn = "save_odds_history_daily" THEN "daily" ELSE "championship"

\* the stored rows of the event of the call c
RowsOfEvent(history, c) ==
  {i \in DOMAIN history : /\ history[i].event_type = EventTypeOf(c)
                          /\ history[i].event_id = c.event_id}

\* the call c differs in a tracked field from the latest stored row of its event
DiffersFromLatest(history, c) ==
  \E i \in RowsOfEvent(history, c) :
    /\ \A j \in RowsOfEvent(history, c) : history[j].recorded_at <= history[i].recorded_at
    /\ \/ \E k \in DOMAIN c.values :
            FieldDiffers(c.values[k], history[i].values[k],
                         TrackedThreshold(EventTypeOf(c), k))
       \/ EvDiffers(c.ev, history[i].ev)

\* the call c appended its row to the history
Inserted(before, after, c) ==
  /\ Len(after) = Len(before) + 1
  /\ SubSeq(after, 1, Len(before)) = before
  /\ after[Len(after)].event_type = EventTypeOf(c)
  /\ after[Len(after)].event_id = c.event_id
  /\ after[Len(after)].values = c.values
  /\ after[Len(after)].ev = c.ev

\* C30: save_odds_history_daily and save_odds_history_championship insert a
\* history row, and return True, exactly when the event has no previous row or
\* a tracked field differs from the latest stored row by at least its
\* threshold or changes between null and non-null; otherwise they insert
\* nothing and return False.
C30_HistoryRowExactlyOnChange ==
  [][(call'.fn \in {"save_odds_history_daily", "save_odds_history_championship"}
      /\ result' # <<>>)
     => /\ result'[1] <=> (RowsOfEvent(odds_history, call') = {}
                           \/ DiffersFromLatest(odds_history, call'))
        /\ result'[1] => Inserted(odds_history, odds_history', call')
        /\ ~result'[1] => odds_history' = odds_history]_vars

\* a call whose fields moved by less than their thresholds was skipped
C30_Witness ==
  /\ Done("save_odds_history_daily")
  /\ result = <<FALSE>>
  /\ odds_history # <<>>
  /\ call.values # odds_history[Len(odds_history)].values

(***************************************************************************)
(* Properties of the analysis job and of the tables it shares with the     *)
(* scraper.                                                                 *)
(***************************************************************************)
\* the run processed a match whose report had no predicted_winner
HadMalformedReport ==
  \E i \in DOMAIN job.outcomes :
    job.outcomes[i].status # "skipped" /\ ~job.outcomes[i].parsed

\* C27: a match whose LLM output cannot be parsed (predicted_winner None) does
\* not stop the batch: process_match completes without raising for every
\* sport type, every fetched match is processed and the championship phase
\* runs.
C27_MalformedReportDoesNotStopTheBatch ==
  HadMalformedReport =>
    /\ ~job.raised
    /\ \A i \in DOMAIN job.outcomes : job.outcomes[i].status # "raised"
    /\ Len(job.outcomes) = job.matches
    /\ Len(job.champ_outcomes) = job.championships

\* the same row of market_odds before the run
SameMarket(p, r) ==
  /\ p.sport_type = r.sport_type
  /\ p.team_name = r.team_name
  /\ p.prop_type = r.prop_type

\* the rows of the table before the run that are the market of the row r and
\* had a report
ReportsBefore(market, r) ==
  {market[k] : k \in {j \in DOMAIN market :
                        SameMarket(market[j], r) /\ market[j].ai_analysis # None}}

\* C28: save_to_database preserves each market's AI report: a row (sport_type,
\* team_name, prop_type) that had a report before the run and is inserted
\* again carries the ai_analysis and analysis_timestamp of that same row,
\* never those of a row of another sport type or prop type, and a row that
\* had no report before has none after.
C28_ReportStaysWithItsMarket ==
  [][SaveToDatabase =>
       \A i \in DOMAIN market_odds' :
         IF ReportsBefore(market_odds, market_odds'[i]) # {}
         THEN \E p \in ReportsBefore(market_odds, market_odds'[i]) :
                /\ market_odds'[i].ai_analysis = p.ai_analysis
                /\ market_odds'[i].analysis_timestamp = p.analysis_timestamp
         ELSE /\ market_odds'[i].ai_analysis = None
              /\ market_odds'[i].analysis_timestamp = NoneNum]_vars

\* the staleness window of the row r at time t, in hours: 1 within 24 hours of
\* the kickoff, else 24 (NBA and other sports), 48 (EPL) or 72 (UCL)
StalenessWindow(r, t) ==
  IF r.commence_time < t + 24 THEN 1
  ELSE IF r.sport_type = "epl" THEN 48
  ELSE IF r.sport_type = "ucl" THEN 72
  ELSE 24

\* the job has stored a prediction for the future match r and its staleness
\* window has not elapsed at time t
FreshPrediction(r, t) ==
  /\ r.ai_prediction # None
  /\ r.ai_generated_at # NoneNum
  /\ r.commence_time > t
  /\ t - r.ai_generated_at < StalenessWindow(r, t)

\* C29: once the job has stored a prediction for a future match,
\* fetch_pending_matches does not select the match again until its staleness
\* window has elapsed, whatever runs of the scraper and of the job follow.
C29_NotSelectedAgainWhileFresh ==
  [][\A r \in daily_matches :
       FreshPrediction(r, now') =>
         \A q \in daily_matches' :
           (q.sport_type = r.sport_type /\ q.match_id = r.match_id)
             => ~IsPending(q, now')]_vars
=============================================================================
